---- MODULE Spec2Model ----
(***************************************************************************)
(* Model of the document-translation pipeline of src/utils.py:             *)
(* translate_word_document, its pool of batch workers, the batch client    *)
(* call_deepl_api_batch and the lazily built client of                     *)
(* _get_deepl_translator, and of the chat client call_deepseek_api.        *)
(*                                                                         *)
(* A text is a triple <<kind, id, pad>>: kind "src" is an ordinary         *)
(* translatable text (id = the node holding it), "key" a translatable text *)
(* that may be a glossary key, "num" a text _should_translate_text         *)
(* rejects, "" the empty text, "long" a text of more than 8000 characters, *)
(* "tr"/"trkey" the provider's translation of the "src"/"key" text of the  *)
(* same id, "gl" a glossary value, "max" a translatable text of exactly     *)
(* 8000 characters.  pad = TRUE is leading or trailing whitespace, which   *)
(* strip() removes.                                                        *)
(***************************************************************************)
EXTENDS Integers, Sequences, FiniteSets, TLC

\* ------------------------------------------------------------ constants
batch_size == 50
max_workers == 5
max_text_len == 8000

\* ------------------------------------------------------------ bounds
\* documents of the small family have 0..MaxSmallNodes nodes
MaxSmallNodes == 2
\* provider calls of a run that may fail or answer short
MaxFaults == 2
\* the same, in the runs that fill the pool
PoolFaults == 1
\* the documents of the batching runs have 0..MaxCandidates nodes
MaxCandidates == 101
\* a direct call of call_deepl_api_batch passes 0..MaxTexts texts
MaxTexts == 2
\* the direct calls a process makes, one after the other
MaxCalls == 2
\* provider calls of the direct calls that may fail or answer short
ClientFaults == 1
\* the classifier is given every string of up to MaxStrLen characters
MaxStrLen == 3
\* and every date-like string whose runs of digits have up to MaxRun digits
MaxRun == 5
\* the scenario document has ScenarioSize translatable paragraphs,
\* ScenarioKeys of them glossary keys, ScenarioStride nodes apart when spread
ScenarioSize == 120
ScenarioKeys == 5
ScenarioStride == 23
\* call_deepseek_api is called with max_retries in 0..MaxRetries
MaxRetries == 3

\* ------------------------------------------------------------ state
VARIABLES
    GLOSSARY,            \* module global: glossary key -> value
    credentials,         \* [secrets, env]: the DEEPL_API_KEY of each store, "" = absent
    deepl_translator,    \* module global: 0 = None, else the client instance
    constructed,         \* instance -> the key it was constructed with (history)
    returned,            \* instances _get_deepl_translator has returned (history)
    target_language,     \* argument of translate_word_document
    cbMode,              \* progress_callback: "none" | "returns" | "raises"
    provider,            \* [shapes, errors, faults]: what the provider may answer
                         \* in this run, and how many of its calls may fail
    orig,                \* node -> text of the source document
    nodeText,            \* node -> text of the document in memory
    pc,                  \* position of the orchestrating thread
    translation_tasks,   \* sequence of [idx, text, node]
    total_count, processed, failed,
    api_tasks,           \* the tasks left for the provider
    target_lang_code,
    task_batches,        \* sequence of sequences of tasks
    call,                \* caller -> state of its _translate_batch_task call
    folded,              \* batches as_completed has yielded and the loop has handled
    cur,                 \* the batch the loop body is retrying (0 = none)
    translation_results, \* task idx -> [text, error]
    completed_batches,
    cbLog,               \* the callback's invocations <<current, total, message>>
    resp,                \* <<batch, attempt>> -> provider outcome (history)
    touched,             \* threads that read or wrote translation_results/counters
    saved,               \* the artifact written by doc.save: <<>> or <<nodeText>>
    outcome,             \* "running" | "returned" | "raised"
    args,                \* [fn, texts, lang]: the arguments of the direct calls of
                         \* translate_text, call_deepl_api or call_deepl_api_batch
                         \* the process makes (fn = "none": it runs a document)
    replies,             \* what the direct calls returned or raised, in order
    docx_path,           \* argument of translate_word_document: [parent, name]
    disk,                \* path -> the document stored in the file there
    deepseek             \* the locals and the history of a call_deepseek_api call

vars == <<GLOSSARY, credentials, deepl_translator, constructed, returned,
          target_language, cbMode, provider, orig, nodeText, pc, translation_tasks,
          total_count, processed, failed, api_tasks, target_lang_code,
          task_batches, call, folded, cur, translation_results,
          completed_batches, cbLog, resp, touched, saved, outcome, args,
          replies, docx_path, disk, deepseek>>

\* what no step of a document run changes
envVars == <<GLOSSARY, credentials, target_language, cbMode, provider, orig,
             args, replies, docx_path, deepseek>>

\* ------------------------------------------------------------ texts
EmptyText == <<"", 0, FALSE>>
NoText == <<"None", 0, FALSE>>

\* str.strip()
Strip(t) == IF t[1] = "" THEN EmptyText ELSE <<t[1], t[2], FALSE>>

\* `if text` / `not text_stripped`: the empty string is falsy
Truthy(t) == t[1] # "" /\ t[1] # "None"

\* len(text): a "long" text has one character more than max_text_len, a "max"
\* text has max_text_len characters, whitespace around a text adds two
TextLen(t) ==
    (CASE t[1] = "" -> 0
       [] t[1] = "long" -> max_text_len + 1
       [] t[1] = "max" -> max_text_len
       [] OTHER -> 2)
    + (IF t[3] /\ t[1] # "" THEN 2 ELSE 0)

\* a variant of WithinMaxLen that differs from the code: no length test
WithinMaxLenAlways(t) == TRUE

\* len(text) <= 8000
WithinMaxLen(t) == TextLen(t) <= max_text_len

\* the provider's translation of a text it is sent
Translate(t) ==
    IF t[1] = "src" THEN <<"tr", t[2], FALSE>>
    ELSE IF t[1] = "key" THEN <<"trkey", t[2], FALSE>>
    ELSE <<"tr" , t[2], FALSE>>

\* ------------------------------------------------------------ the classifier
\* _should_translate_text reads the characters of a text.  A string is a
\* sequence of characters, one per class the patterns tell apart: "d" a digit,
\* "." "," "-" themselves, "+" a sign, "%" the percent sign, "$" a currency
\* symbol, "/" the slash, ";" a punctuation mark of the last pattern that no
\* other pattern names, " " whitespace, "Nian" "Yue" "Ri" the characters of
\* the Chinese date (U+5E74, U+6708, U+65E5), "a" any other character.
Alphabet ==
    {"d", ".", ",", "-", "+", "%", "$", "/", ";", " ", "Nian", "Yue", "Ri", "a"}

\* [\d\s\.,\-+\%\$ and the euro and yen signs]
NumericClass == {"d", " ", ".", ",", "-", "+", "%", "$"}

\* [-/\.]
DateSeparators == {"-", "/", "."}

\* [\s\.,;:!?\-_()\[\]{}"']
PunctuationClass == {" ", ".", ",", ";", "-"}

\* str.strip() on a string
StripChars(str) ==
    LET inner == {i \in 1..Len(str) : str[i] # " "}
    IN IF inner = {} THEN <<>>
       ELSE SubSeq(str, CHOOSE i \in inner : \A j \in inner : i <= j,
                        CHOOSE i \in inner : \A j \in inner : j <= i)

\* re.match(r'^[class]+$', str)
MatchAll(str, class) ==
    str # <<>> /\ \A i \in 1..Len(str) : str[i] \in class

\* re.search(r'\d', str)
SearchDigit(str) == \E i \in 1..Len(str) : str[i] = "d"

\* \d{n} at position from
DigitsAt(str, from, n) == \A i \in from..(from + n - 1) : str[i] = "d"

\* re.match of ^\d{A}[S1]\d{B}[S2]\d{C}suffix$ with A, B, C the sets of widths
MatchDate(str, A, S1, B, S2, C, suffix) ==
    \E a \in A, b \in B, c \in C :
        /\ Len(str) = a + b + c + 2 + Len(suffix)
        /\ DigitsAt(str, 1, a)
        /\ str[a + 1] \in S1
        /\ DigitsAt(str, a + 2, b)
        /\ str[a + b + 2] \in S2
        /\ DigitsAt(str, a + b + 3, c)
        /\ SubSeq(str, a + b + c + 3, Len(str)) = suffix

\* any(re.match(pattern, str) for pattern in date_patterns)
MatchDatePatterns(str) ==
    \/ MatchDate(str, {4}, DateSeparators, {1, 2}, DateSeparators, {1, 2}, <<>>)
    \/ MatchDate(str, {1, 2}, DateSeparators, {1, 2}, DateSeparators, {4}, <<>>)
    \/ MatchDate(str, {4}, {"Nian"}, {1, 2}, {"Yue"}, {1, 2}, <<"Ri">>)

\* a variant of _should_translate_text that differs from the code: the date
\* patterns are not tried
ShouldTranslateNoDates(text) ==
    LET text_stripped == StripChars(text)
    IN IF text_stripped = <<>> THEN FALSE
       ELSE IF MatchAll(text_stripped, NumericClass) /\ SearchDigit(text_stripped)
       THEN FALSE
       ELSE IF MatchAll(text_stripped, PunctuationClass) THEN FALSE
       ELSE TRUE

_should_translate_text(text) ==
    LET text_stripped == StripChars(text)
    IN IF text_stripped = <<>> THEN FALSE
       ELSE IF MatchAll(text_stripped, NumericClass) /\ SearchDigit(text_stripped)
       THEN FALSE
       ELSE IF MatchDatePatterns(text_stripped) THEN FALSE
       ELSE IF MatchAll(text_stripped, PunctuationClass) THEN FALSE
       ELSE TRUE

\* the characters of a text of the document model: a number for "num", other
\* characters for the rest, whitespace around a padded text
Chars(t) ==
    LET body == CASE t[1] = "" -> <<>>
                  [] t[1] = "num" -> <<"d", ".", "d">>
                  [] t[1] = "key" -> <<"a", "a">>
                  [] OTHER -> <<"a">>
    IN IF t[3] /\ body # <<>> THEN <<" ">> \o body \o <<" ">> ELSE body

\* ------------------------------------------------------------ languages
\* Language names are written in pinyin: Zhongwen, Yingyu, Yingwen, Riyu, Fayu
\* are the Chinese names of Chinese, English (two spellings), Japanese, French;
\* message texts are written in English, token by token.
\* language_map (lines 328-352), its 23 names
MappedNames ==
    {"Zhongwen", "Jiantizhongwen", "Yingyu", "Yingwen", "Riyu",
     "Fayu", "Deyu", "Xibanyayu", "Eyu", "Hanyu",
     "Yidaliyu", "Putaoyayu", "Alaboyu", "Taiyu", "Yuenanyu",
     "Yinniyu", "Helanyu", "Ruidianyu", "Nuoweiyu", "Danmaiyu",
     "Fenlanyu", "Bolanyu", "Tuerqiyu"}

LanguageMap ==
    [n \in MappedNames |->
        CASE n = "Zhongwen" -> "ZH"
          [] n = "Jiantizhongwen" -> "ZH"
          [] n = "Yingyu" -> "EN-US"
          [] n = "Yingwen" -> "EN-US"
          [] n = "Riyu" -> "JA"
          [] n = "Fayu" -> "FR"
          [] n = "Deyu" -> "DE"
          [] n = "Xibanyayu" -> "ES"
          [] n = "Eyu" -> "RU"
          [] n = "Hanyu" -> "KO"
          [] n = "Yidaliyu" -> "IT"
          [] n = "Putaoyayu" -> "PT"
          [] n = "Alaboyu" -> "AR"
          [] n = "Taiyu" -> "TH"
          [] n = "Yuenanyu" -> "VI"
          [] n = "Yinniyu" -> "ID"
          [] n = "Helanyu" -> "NL"
          [] n = "Ruidianyu" -> "SV"
          [] n = "Nuoweiyu" -> "NO"
          [] n = "Danmaiyu" -> "DA"
          [] n = "Fenlanyu" -> "FI"
          [] n = "Bolanyu" -> "PL"
          [] n = "Tuerqiyu" -> "TR"]

_get_deepl_lang_code(language_name) ==
    IF language_name \in DOMAIN LanguageMap
    THEN LanguageMap[language_name] ELSE "EN-US"

\* str.upper() on the language codes of the model
Upper(code) ==
    CASE code = "en-us" -> "EN-US"
      [] code = "en-gb" -> "EN-GB"
      [] code = "ja" -> "JA"
      [] OTHER -> code

\* target_lang.upper().startswith("EN")
StartsWithEN(code) == Upper(code) \in {"EN-US", "EN-GB", "EN"}

\* the characters of a language name, one syllable per Chinese character; a
\* name in Latin script is one token
Characters(name) ==
    CASE name = "Zhongwen" -> <<"Zhong", "wen">>
      [] name = "Jiantizhongwen" -> <<"Jian", "ti", "Zhong", "wen">>
      [] name = "Yingyu" -> <<"Ying", "yu">>
      [] name = "Yingwen" -> <<"Ying", "wen">>
      [] name = "Riyu" -> <<"Ri", "yu">>
      [] name = "Fayu" -> <<"Fa", "yu">>
      [] name = "Deyu" -> <<"De", "yu">>
      [] name = "Xibanyayu" -> <<"Xi", "ban", "ya", "yu">>
      [] name = "Eyu" -> <<"E", "yu">>
      [] name = "Hanyu" -> <<"Han", "yu">>
      [] name = "Yidaliyu" -> <<"Yi", "da", "li", "yu">>
      [] name = "Putaoyayu" -> <<"Pu", "tao", "ya", "yu">>
      [] name = "Alaboyu" -> <<"A", "la", "bo", "yu">>
      [] name = "Taiyu" -> <<"Tai", "yu">>
      [] name = "Yuenanyu" -> <<"Yue", "nan", "yu">>
      [] name = "Yinniyu" -> <<"Yin", "ni", "yu">>
      [] name = "Helanyu" -> <<"He", "lan", "yu">>
      [] name = "Ruidianyu" -> <<"Rui", "dian", "yu">>
      [] name = "Nuoweiyu" -> <<"Nuo", "wei", "yu">>
      [] name = "Danmaiyu" -> <<"Dan", "mai", "yu">>
      [] name = "Fenlanyu" -> <<"Fen", "lan", "yu">>
      [] name = "Bolanyu" -> <<"Bo", "lan", "yu">>
      [] name = "Tuerqiyu" -> <<"Tu", "er", "qi", "yu">>
      [] OTHER -> <<name>>

\* the name contains the character Ying (U+82F1), or contains "English"
NameSaysEnglish(name) ==
    \E i \in 1..Len(Characters(name)) : Characters(name)[i] \in {"Ying", "English"}

\* ------------------------------------------------------------ errors
NoError == [kind |-> "None", msg |-> <<>>]

\* the message of the exception call_deepl_api_batch raises for a provider
\* exception of class kind whose own str() is inner
WrapMessage(kind, inner) ==
    CASE kind = "QuotaExceeded"   -> <<"DeepL API quota used up">>
      [] kind = "Authorization"   -> <<"DeepL API authentication failed">>
      [] kind = "TooManyRequests" -> <<"DeepL API requests too frequent", "try again later">>
      [] kind = "Connection"      -> <<"DeepL API connection failed">> \o inner
      [] kind = "DeepLException"  -> <<"DeepL API call failed">> \o inner
      [] OTHER                    -> <<"unknown error calling DeepL API">> \o inner

ProviderError(kind, inner) == [kind |-> kind, msg |-> WrapMessage(kind, inner)]

ConfigError == [kind |-> "ValueError", msg |-> <<"DeepL API Key not found">>]

CallbackError == [kind |-> "Callback", msg |-> <<"callback failed">>]

\* a variant of IsRateLimitMessage that differs from the code: no message
\* passes the test
IsRateLimitMessageNever(error) == FALSE

\* "429" in error_msg or "rate limit" in error_msg.lower()
\*   or "TooManyRequests" in error_msg
IsRateLimitMessage(error) ==
    \E i \in 1..Len(error.msg) :
        error.msg[i] \in {"429", "rate limit", "Rate Limit", "TooManyRequests"}

\* ------------------------------------------------------------ paths
\* A path is [parent, name]; a name is the sequence of its pieces, the last
\* of them the suffix when it starts with a dot and is not the whole name.
Suffixes == {".docx", ".DOCX", ".doc"}

\* Path(...).stem
Stem(name) ==
    IF Len(name) > 1 /\ name[Len(name)] \in Suffixes
    THEN SubSeq(name, 1, Len(name) - 1) ELSE name

\* a variant of OutputPath that differs from the code: the name of the source
\* with the suffix .docx
OutputPathSameName(original_path) ==
    [parent |-> original_path.parent,
     name |-> Stem(original_path.name) \o <<".docx">>]

\* original_path.parent / f"translated_{original_path.stem}.docx"
OutputPath(original_path) ==
    [parent |-> original_path.parent,
     name |-> <<"translated_">> \o Stem(original_path.name) \o <<".docx">>]

DefaultPath == [parent |-> "dir", name |-> <<"a", ".docx">>]

\* ------------------------------------------------------------ tasks
Task(i, t, n) == [idx |-> i, text |-> t, node |-> n]

TextsOf(task_list) == [k \in 1..Len(task_list) |-> task_list[k].text]

IdxsOf(task_list) == {task_list[k].idx : k \in 1..Len(task_list)}

\* the nodes of the document in traversal order whose text passes
\* `text and len(text) <= 8000` and _should_translate_text
CollectTasks(doc) ==
    LET nodes == SelectSeq([n \in 1..Len(doc) |-> n],
                   LAMBDA n : /\ Truthy(Strip(doc[n]))
                              /\ WithinMaxLen(Strip(doc[n]))
                              /\ _should_translate_text(Chars(Strip(doc[n]))))
    IN [k \in 1..Len(nodes) |-> Task(k - 1, Strip(doc[nodes[k]]), nodes[k])]

\* for i in range(0, len(api_tasks), batch_size): api_tasks[i:i + batch_size]
Min(a, b) == IF a < b THEN a ELSE b

\* a variant of NumBatchesOf that differs from the code: only full slices
NumBatchesFloor(tasks) == Len(tasks) \div batch_size

NumBatchesOf(tasks) == (Len(tasks) + batch_size - 1) \div batch_size

\* a variant of MakeBatches that differs from the code: the slices are one
\* task shorter than batch_size
MakeBatchesShort(tasks) ==
    LET size == batch_size - 1
        n == (Len(tasks) + size - 1) \div size
    IN [k \in 1..n |-> SubSeq(tasks, (k - 1) * size + 1, Min(k * size, Len(tasks)))]

MakeBatches(tasks) ==
    [k \in 1..NumBatchesOf(tasks) |->
        SubSeq(tasks, (k - 1) * batch_size + 1, Min(k * batch_size, Len(tasks)))]

\* ------------------------------------------------------------ batch client
\* is_target_english and text_stripped in GLOSSARY  (call_deepl_api_batch)
BatchGlossaryHit(text, target_lang) ==
    StartsWithEN(target_lang) /\ Strip(text) \in DOMAIN GLOSSARY

ApiTexts(texts, target_lang) ==
    SelectSeq(texts, LAMBDA t : ~BatchGlossaryHit(t, target_lang))

ProviderShapes == {"ok", "short", "long", "blank"}

\* what translator.translate_text answers for api_texts when it does not raise:
\* the translations in order; one too few; one too many; or with an empty
\* string in the first place
ProviderReply(api_texts, shape) ==
    LET full == [k \in 1..Len(api_texts) |-> Translate(api_texts[k])]
    IN CASE shape = "ok"    -> full
         [] shape = "short" -> SubSeq(full, 1, Len(full) - 1)
         [] shape = "long"  -> Append(full, <<"tr", 0, FALSE>>)
         [] shape = "blank" -> [full EXCEPT ![1] = EmptyText]

\* a variant of FinalResults that differs from the code: the provider's list
\* is read at the position of the text in texts, not at api_idx
FinalResultsByPosition(texts, target_lang, api_translations) ==
    [i \in 1..Len(texts) |->
        IF StartsWithEN(target_lang) /\ Strip(texts[i]) \in DOMAIN GLOSSARY
        THEN GLOSSARY[Strip(texts[i])]
        ELSE IF i <= Len(api_translations)
             THEN api_translations[i]
             ELSE texts[i]]

\* a variant of FinalResults that differs from the code: a text the provider
\* gave no translation for gets no result
FinalResultsNoPadding(texts, target_lang, api_translations) ==
    LET hits == {j \in 1..Len(texts) : BatchGlossaryHit(texts[j], target_lang)}
        answered == {i \in 1..Len(texts) :
                        i \in hits
                        \/ i - Cardinality({j \in hits : j < i}) <= Len(api_translations)}
    IN [i \in 1..Cardinality(answered) |->
          IF i \in hits
          THEN GLOSSARY[Strip(texts[i])]
          ELSE api_translations[i - Cardinality({j \in hits : j < i})]]

\* the loop that builds final_results
FinalResults(texts, target_lang, api_translations) ==
    LET hits == {j \in 1..Len(texts) : BatchGlossaryHit(texts[j], target_lang)}
    IN [i \in 1..Len(texts) |->
          IF i \in hits
          THEN GLOSSARY[Strip(texts[i])]
          ELSE LET api_idx == i - Cardinality({j \in hits : j < i})
               IN IF api_idx <= Len(api_translations)
                  THEN api_translations[api_idx]
                  ELSE texts[i]]

\* the provider exceptions call_deepl_api_batch maps, and the texts the
\* provider's own exception may carry
ErrorKinds == {"QuotaExceeded", "Authorization", "TooManyRequests",
               "Connection", "DeepLException", "Unknown"}

\* every provider exception may carry an ordinary text; the text naming the
\* HTTP status 429 is explored for the generic DeepLException
InnerMessages(kind) ==
    IF kind = "DeepLException" THEN {<<"timed out">>, <<"429">>}
    ELSE {<<"timed out">>}

\* the exceptions a provider call can end with, as call_deepl_api_batch raises them
ProviderErrors ==
    UNION { {ProviderError(k, m) : m \in InnerMessages(k)} : k \in ErrorKinds }

\* ------------------------------------------------------------ client singleton
\* a variant of ResolveKey that differs from the code: os.getenv first
ResolveKeyEnvFirst(c) == IF c.env # "" THEN c.env ELSE c.secrets

\* st.secrets.get first, os.getenv when that gave nothing
ResolveKey(c) == IF c.secrets # "" THEN c.secrets ELSE c.env

\* ------------------------------------------------------------ initial states
Languages == {"Yingyu", "Riyu", "French"}

GlossaryKey == <<"key", 1, FALSE>>

OneTerm == [k \in {GlossaryKey} |-> <<"gl", 1, FALSE>>]

\* glossary.json: empty, one term, or one term with an empty value
Glossaries ==
    { <<>>,
      OneTerm,
      [k \in {GlossaryKey} |-> EmptyText] }

BothKeys == [secrets |-> "secrets-key", env |-> "env-key"]

CredentialChoices ==
    { [secrets |-> "", env |-> ""],
      [secrets |-> "", env |-> "env-key"],
      BothKeys }

NodeChoices(i) ==
    IF i = 1
    THEN { <<"src", 1, FALSE>>, <<"src", 1, TRUE>>, <<"key", 1, FALSE>>,
           <<"num", 1, FALSE>>, EmptyText, <<"long", 1, FALSE>> }
    ELSE { <<"src", i, FALSE>>, <<"key", 1, FALSE>> }

\* documents of up to MaxSmallNodes nodes
SmallDocs ==
    UNION { { d \in [1..n -> UNION {NodeChoices(i) : i \in 1..n}] :
                \A i \in 1..n : d[i] \in NodeChoices(i) } : n \in 0..MaxSmallNodes }

\* a document of two batches, the second with a single task: ordinary texts,
\* the first node possibly a glossary key
LargeSize == batch_size + 1

LargeDocs ==
    { [i \in 1..LargeSize |-> IF i = 1 THEN first ELSE <<"src", i, FALSE>>] :
        first \in {<<"src", 1, FALSE>>, <<"key", 1, FALSE>>} }

HasKey(doc) == \E n \in 1..Len(doc) : Strip(doc[n]) = GlossaryKey

IdleCall == [pc |-> "idle", batch |-> 0, inst |-> 0, texts |-> <<>>, error |-> NoError]

\* the process makes no direct call
NoArgs == [fn |-> "none", texts |-> <<>>, lang |-> ""]

\* the process does not call call_deepseek_api
NotCalled ==
    [pc |-> "none", secrets |-> "", env |-> "", max_retries |-> 0, attempt |-> 0,
     last_exception |-> {"None"}, log |-> <<>>, raised |-> ""]

InitRun ==
    /\ nodeText = orig
    /\ pc = "start"
    /\ translation_tasks = <<>>
    /\ total_count = 0 /\ processed = 0 /\ failed = 0
    /\ api_tasks = <<>>
    /\ target_lang_code = ""
    /\ task_batches = <<>>
    /\ call = [c \in {0} |-> IdleCall]
    /\ folded = {}
    /\ cur = 0
    /\ translation_results = <<>>
    /\ completed_batches = 0
    /\ cbLog = <<>>
    /\ resp = <<>>
    /\ touched = {}
    /\ saved = <<>>
    /\ disk = (docx_path :> orig)
    /\ outcome = "running"
    /\ returned = {}
    /\ replies = <<>>

\* the process has not translated anything yet
NoClient ==
    /\ deepl_translator = 0
    /\ constructed = <<>>

AnyAnswer ==
    [shapes |-> ProviderShapes, errors |-> ProviderErrors, faults |-> MaxFaults]

Init ==
    /\ \/ /\ orig \in SmallDocs
          /\ GLOSSARY \in (IF HasKey(orig) THEN Glossaries ELSE {OneTerm})
          /\ \/ credentials \in CredentialChoices /\ cbMode = "returns"
             \/ credentials = BothKeys /\ cbMode \in {"none", "raises"}
       \/ /\ orig \in LargeDocs
          /\ GLOSSARY = OneTerm
          /\ credentials = BothKeys
          /\ cbMode = "returns"
    /\ target_language \in Languages
    /\ provider = AnyAnswer
    /\ args = NoArgs
    /\ NoClient
    /\ docx_path = DefaultPath
    /\ deepseek = NotCalled
    /\ InitRun

\* a document of one batch more than the pool has workers
PoolSize == max_workers * batch_size + 1

\* the provider of the pool runs answers in full or fails with the generic
\* error whose text names the status 429
PoolAnswer ==
    [shapes |-> {"ok"}, errors |-> {ProviderError("DeepLException", <<"429">>)},
     faults |-> PoolFaults]

\* a later run of the process: the client exists already
InitPool ==
    /\ orig = [i \in 1..PoolSize |-> <<"src", i, FALSE>>]
    /\ GLOSSARY = OneTerm
    /\ credentials = BothKeys
    /\ cbMode = "none"
    /\ target_language = "Riyu"
    /\ provider = PoolAnswer
    /\ args = NoArgs
    /\ deepl_translator = 1
    /\ constructed = <<ResolveKey(BothKeys)>>
    /\ docx_path = DefaultPath
    /\ deepseek = NotCalled
    /\ InitRun

\* ------------------------------------------------------------ the callback
\* the invocations an action makes, up to the one that raises (r = 0: none does)
Logged(entries, r) ==
    IF cbMode = "none" THEN cbLog
    ELSE cbLog \o (IF r = 0 THEN entries ELSE SubSeq(entries, 1, r))

\* which of the k invocations of an action raises
RaiseChoices(k) == IF cbMode = "raises" THEN 0..k ELSE {0}

\* translate_word_document's outer handlers: raise Exception(...)
Abort ==
    /\ pc' = "raised"
    /\ outcome' = "raised"

poolVars == <<call, deepl_translator, constructed, returned, resp>>
loopVars == <<folded, cur, translation_results, completed_batches, touched>>
taskVars == <<translation_tasks, total_count, api_tasks, target_lang_code, task_batches>>

\* ------------------------------------------------------------ steps 1 and 2
\* lines 650-692: load, collect the tasks, report
LoadAndExtract ==
    /\ args = NoArgs
    /\ pc = "start"
    /\ LET tasks == CollectTasks(nodeText)
           entries == << <<0, 0, "loading">>, <<0, 0, "analysing">>,
                         <<0, Len(tasks), "start">> >>
       IN \E r \in RaiseChoices(3) :
            /\ cbLog' = Logged(entries, r)
            /\ IF r = 0
               THEN /\ translation_tasks' = tasks
                    /\ total_count' = Len(tasks)
                    /\ pc' = "glossary"
                    /\ UNCHANGED outcome
               ELSE /\ UNCHANGED <<translation_tasks, total_count>>
                    /\ Abort
    /\ UNCHANGED <<envVars, nodeText, processed, failed, api_tasks,
                   target_lang_code, task_batches, poolVars, loopVars, saved, disk>>

\* a variant of DocGlossaryHit that differs from the code: the glossary is
\* used for every target language
DocGlossaryHitAnyLanguage(text) == Strip(text) \in DOMAIN GLOSSARY

\* is_target_english and text_stripped in GLOSSARY  (translate_word_document)
DocGlossaryHit(text) ==
    NameSaysEnglish(target_language) /\ Strip(text) \in DOMAIN GLOSSARY

\* _apply_translation_to_paragraph on every node of the tasks in hits
\* a variant of ApplyAll that differs from the code: the document is rebuilt
\* from the new texts alone
ApplyAllRebuild(texts, hits) == [k \in DOMAIN hits |-> hits[k].new]

ApplyAll(texts, hits) ==
    [n \in DOMAIN texts |->
        IF \E k \in DOMAIN hits : hits[k].node = n
        THEN (LET k == CHOOSE k \in DOMAIN hits : hits[k].node = n
              IN hits[k].new)
        ELSE texts[n]]

\* lines 694-708: glossary hits are applied at once, the rest are api_tasks
GlossaryPass ==
    /\ pc = "glossary"
    /\ LET hitTasks == SelectSeq(translation_tasks, LAMBDA t : DocGlossaryHit(t.text))
           hits == [k \in 1..Len(hitTasks) |->
                      [node |-> hitTasks[k].node,
                       new |-> GLOSSARY[Strip(hitTasks[k].text)]]]
       IN /\ nodeText' = ApplyAll(nodeText, hits)
          /\ processed' = processed + Len(hitTasks)
          /\ api_tasks' = SelectSeq(translation_tasks,
                                    LAMBDA t : ~DocGlossaryHit(t.text))
    /\ pc' = "submit"
    /\ UNCHANGED <<envVars, translation_tasks, total_count, failed,
                   target_lang_code, task_batches, poolVars, loopVars,
                   cbLog, saved, disk, outcome>>

QueuedCall(b) == [IdleCall EXCEPT !.pc = "queued", !.batch = b]

\* lines 710-739: batches of batch_size, all submitted to the pool
SubmitBatches ==
    /\ pc = "submit"
    /\ IF api_tasks = <<>>
       THEN /\ pc' = "save"
            /\ UNCHANGED <<target_lang_code, task_batches, call, cbLog, outcome>>
       ELSE LET batches == MakeBatches(api_tasks)
            IN \E r \in RaiseChoices(1) :
                 /\ target_lang_code' = _get_deepl_lang_code(target_language)
                 /\ task_batches' = batches
                 /\ cbLog' = Logged(<< <<processed, total_count, "dispatch">> >>, r)
                 /\ IF r = 0
                    THEN /\ call' = [c \in 0..Len(batches) |->
                                       IF c = 0 THEN IdleCall ELSE QueuedCall(c)]
                         /\ pc' = "collect"
                         /\ UNCHANGED outcome
                    ELSE /\ UNCHANGED call
                         /\ Abort
    /\ UNCHANGED <<envVars, nodeText, translation_tasks, total_count, processed,
                   failed, api_tasks, deepl_translator, constructed, returned,
                   resp, loopVars, saved, disk>>

\* ------------------------------------------------------------ batch calls
\* Caller 0 is the orchestrating thread (its retry call); caller b >= 1 is the
\* pool worker running the future of batch b.
Active == {"construct", "return", "net"}

InFlight == {c \in DOMAIN call : call[c].pc \in Active}

PoolBusy == {c \in DOMAIN call : c # 0 /\ call[c].pc \in Active}

\* the call of a pool worker is the first for its batch, the call the loop
\* thread makes while it retries batch cur the second; direct calls are
\* numbered in their order
Attempt(c) == IF c # 0 THEN 1 ELSE IF cur # 0 THEN 2 ELSE Len(replies) + 1

\* the arguments of the call for batch b; b = 0 is a direct call
CallTexts(b) == IF b = 0 THEN args.texts ELSE TextsOf(task_batches[b])

CallLang(b) == IF b = 0 THEN args.lang ELSE target_lang_code

\* the provider calls of the run that did not answer with the full list
Faults == {k \in DOMAIN resp : resp[k].shape \notin {"ok", "glossary"}}

\* a run explores at most provider.faults such calls
MayFail == Cardinality(Faults) < provider.faults

\* caller c runs call_deepl_api, the client of a single text
Single(c) == c = 0 /\ cur = 0 /\ args.fn \in {"translate_text", "call_deepl_api"}

\* the language code call_deepl_api is given: translate_text resolves the name
SingleLang ==
    IF args.fn = "translate_text" THEN _get_deepl_lang_code(args.lang) ELSE args.lang

\* the argument of translator.translate_text in the call of c for batch b:
\* api_texts in call_deepl_api_batch, text in call_deepl_api
SentTexts(b, c) ==
    IF Single(c) THEN args.texts ELSE ApiTexts(CallTexts(b), CallLang(b))

\* the outcome of the call, and the texts the provider was sent in it (none
\* when the call ended before translator.translate_text)
Record(b, c, shape, error) ==
    (<<b, Attempt(c)>> :>
        [shape |-> shape, error |-> error,
         sent |-> IF shape = "glossary" \/ error = ConfigError
                  THEN <<>> ELSE SentTexts(b, c)]) @@ resp

Finished(c, texts, error) ==
    [call[c] EXCEPT !.pc = "finished", !.texts = texts, !.error = error]

\* _translate_batch_task enters call_deepl_api_batch for batch b: the glossary
\* split, then _get_deepl_translator's test of the global
CallEnter(c, b) ==
    LET texts == CallTexts(b)
        target_lang == CallLang(b)
        api_texts == ApiTexts(texts, target_lang)
    IN IF api_texts = <<>>
       THEN /\ call' = [call EXCEPT ![c] =
                          [Finished(c, FinalResults(texts, target_lang, <<>>),
                                    NoError) EXCEPT !.batch = b]]
            /\ resp' = Record(b, c, "glossary", NoError)
            /\ UNCHANGED returned
       ELSE IF deepl_translator = 0
       THEN /\ call' = [call EXCEPT ![c].pc = "construct", ![c].batch = b]
            /\ UNCHANGED <<resp, returned>>
       ELSE /\ call' = [call EXCEPT ![c].pc = "net", ![c].batch = b,
                                    ![c].inst = deepl_translator]
            /\ returned' = returned \cup {deepl_translator}
            /\ UNCHANGED resp

\* a variant of PoolHasFreeWorker that differs from the code: a thread per
\* submitted future
PoolUnbounded == TRUE

\* ThreadPoolExecutor(max_workers=max_workers): a worker is free
PoolHasFreeWorker == Cardinality(PoolBusy) < max_workers

\* a variant of WorkerTake that differs from the code: the pool starts no
\* future while the loop thread is in the backoff or in the retry
WorkerTakeWhileCollecting(b) ==
    /\ pc = "collect"
    /\ b \in DOMAIN call /\ b # 0
    /\ call[b].pc = "queued"
    /\ \A b2 \in 1..(b - 1) : call[b2].pc # "queued"
    /\ PoolHasFreeWorker
    /\ CallEnter(b, b)
    /\ UNCHANGED <<envVars, nodeText, pc, taskVars, processed, failed,
                   deepl_translator, constructed, loopVars, cbLog, saved, disk,
                   outcome>>

\* the pool: a free worker takes the oldest queued future
WorkerTake(b) ==
    /\ b \in DOMAIN call /\ b # 0
    /\ call[b].pc = "queued"
    /\ \A b2 \in 1..(b - 1) : call[b2].pc # "queued"
    /\ PoolHasFreeWorker
    /\ CallEnter(b, b)
    /\ UNCHANGED <<envVars, nodeText, pc, taskVars, processed, failed,
                   deepl_translator, constructed, loopVars, cbLog, saved, disk, outcome>>

\* _get_deepl_translator, the global seen unset: resolve the key, raise
\* ValueError without one, else construct a client and store it in the global
Construct(c) ==
    /\ c \in DOMAIN call
    /\ call[c].pc = "construct"
    /\ LET api_key == ResolveKey(credentials)
       IN IF api_key = ""
          THEN /\ call' = [call EXCEPT ![c] = Finished(c, <<>>, ConfigError)]
               /\ resp' = Record(call[c].batch, c, "raise", ConfigError)
               /\ UNCHANGED <<deepl_translator, constructed>>
          ELSE /\ constructed' = Append(constructed, api_key)
               /\ deepl_translator' = Len(constructed) + 1
               /\ call' = [call EXCEPT ![c].pc = "return"]
               /\ UNCHANGED resp
    /\ UNCHANGED <<envVars, nodeText, pc, taskVars, processed, failed,
                   returned, loopVars, cbLog, saved, disk, outcome>>

\* _get_deepl_translator: return deepl_translator
Return(c) ==
    /\ c \in DOMAIN call
    /\ call[c].pc = "return"
    /\ call' = [call EXCEPT ![c].pc = "net", ![c].inst = deepl_translator]
    /\ returned' = returned \cup {deepl_translator}
    /\ UNCHANGED <<envVars, nodeText, pc, taskVars, processed, failed,
                   deepl_translator, constructed, resp, loopVars, cbLog,
                   saved, disk, outcome>>

\* translator.translate_text answers or raises; call_deepl_api_batch builds
\* final_results or maps the exception; _translate_batch_task returns
ProviderCall(c) ==
    /\ c \in DOMAIN call
    /\ call[c].pc = "net"
    /\ ~Single(c)
    /\ LET b == call[c].batch
           target_lang == CallLang(b)
       IN \/ \E shape \in provider.shapes :
               /\ shape = "ok" \/ MayFail
               /\ \E texts \in {CallTexts(b)}, api_texts \in {SentTexts(b, c)} :
                  \E api_translations \in {ProviderReply(api_texts, shape)} :
                    call' = [call EXCEPT ![c] =
                      Finished(c, FinalResults(texts, target_lang, api_translations),
                               NoError)]
               /\ resp' = Record(b, c, shape, NoError)
          \/ \E e \in provider.errors :
               /\ MayFail
               /\ call' = [call EXCEPT ![c] = Finished(c, <<>>, e)]
               /\ resp' = Record(b, c, "raise", e)
    /\ UNCHANGED <<envVars, nodeText, pc, taskVars, processed, failed,
                   deepl_translator, constructed, returned, loopVars, cbLog,
                   saved, disk, outcome>>

\* ------------------------------------------------------------ step 3: the loop
MismatchError == [kind |-> "Mismatch", msg |-> <<"batch result count mismatch">>]

Success(text) == [text |-> text, error |-> NoError]

Failure(error) == [text |-> NoText, error |-> error]

\* a variant of ResultKey that differs from the code: the position in the batch
ResultKeyByPosition(task, k) == k - 1

\* the key under which the result of the k-th task of a batch is stored:
\* translation_results[task_idx]
ResultKey(task, k) == task.idx

\* translation_results after storing value[k] for the tasks at positions ks
Store(r, task_list, ks, value) ==
    LET keys == {ResultKey(task_list[k], k) : k \in ks}
    IN [i \in DOMAIN r \cup keys |->
          IF i \in keys
          THEN value[CHOOSE k \in ks : ResultKey(task_list[k], k) = i]
          ELSE r[i]]

Positions(task_list) == 1..Len(task_list)

\* lines 751-756: a result per position, a mismatch failure past the results
StoreResults(r, task_list, texts) ==
    Store(r, task_list, Positions(task_list),
          [k \in Positions(task_list) |->
              IF k <= Len(texts) THEN Success(texts[k])
              ELSE Failure(MismatchError)])

\* a variant of MarkFailed that differs from the code: every task of the run
\* is marked failed
MarkAllFailed(r, task_list, error) ==
    Store(r, api_tasks, Positions(api_tasks),
          [k \in Positions(api_tasks) |-> Failure(error)])

\* lines 759-760 and 794-795: every task of the batch is marked failed
MarkFailed(r, task_list, error) ==
    Store(r, task_list, Positions(task_list),
          [k \in Positions(task_list) |-> Failure(error)])

\* lines 771-773: a successful retry overwrites the failures it has results for
StoreRetry(r, task_list, texts) ==
    Store(r, task_list, {k \in Positions(task_list) : k <= Len(texts)},
          [k \in {k2 \in Positions(task_list) : k2 <= Len(texts)} |->
              Success(texts[k])])

\* processed + sum(1 for tid in translation_results if ...[tid][1] is None)
CurrentProcessed(r) ==
    processed + Cardinality({tid \in DOMAIN r : r[tid].error = NoError})

AfterLoop(b) ==
    IF folded \cup {b} = 1..Len(task_batches) THEN "apply" ELSE "collect"

\* the thread that runs the body of the as_completed loop
LoopThread == "main"

\* lines 781-804: the progress update closing the loop body for batch b, and
\* the handler that runs when the callback raises in it
Progress(b, r1) ==
    LET r2 == MarkFailed(r1, task_batches[b], CallbackError)
        first == <<CurrentProcessed(r1), total_count, "progress">>
        second == <<CurrentProcessed(r2), total_count, "batch_failed">>
    IN \E x \in RaiseChoices(2) :
         /\ folded' = folded \cup {b}
         /\ touched' = touched \cup {LoopThread}
         /\ IF x = 0
            THEN /\ translation_results' = r1
                 /\ completed_batches' = completed_batches + 1
                 /\ cbLog' = Logged(<<first>>, 0)
                 /\ pc' = AfterLoop(b)
                 /\ UNCHANGED outcome
            ELSE /\ translation_results' = r2
                 /\ completed_batches' = completed_batches + 2
                 /\ cbLog' = Logged(<<first, second>>, 0)
                 /\ IF x = 1
                    THEN pc' = AfterLoop(b) /\ UNCHANGED outcome
                    ELSE Abort

\* lines 742-780: as_completed yields the finished future of batch b
Fold(b) ==
    /\ pc = "collect"
    /\ b \in DOMAIN call /\ b # 0
    /\ b \notin folded
    /\ call[b].pc = "finished"
    /\ LET task_list == task_batches[b]
           error == call[b].error
       IN IF error = NoError
          THEN /\ Progress(b, StoreResults(translation_results, task_list,
                                           call[b].texts))
               /\ UNCHANGED cur
          ELSE IF IsRateLimitMessage(error)
          THEN /\ translation_results' =
                     MarkFailed(translation_results, task_list, error)
               /\ touched' = touched \cup {LoopThread}
               /\ cur' = b
               /\ pc' = "sleep"
               /\ UNCHANGED <<folded, completed_batches, cbLog, outcome>>
          ELSE /\ Progress(b, MarkFailed(translation_results, task_list, error))
               /\ UNCHANGED cur
    /\ UNCHANGED <<envVars, nodeText, taskVars, processed, failed, poolVars, saved, disk>>

\* lines 766-768: time.sleep(5) is over, the loop thread itself calls
\* _translate_batch_task for the batch
RetryBegin ==
    /\ pc = "sleep"
    /\ pc' = "retry"
    /\ CallEnter(0, cur)
    /\ UNCHANGED <<envVars, nodeText, taskVars, processed, failed,
                   deepl_translator, constructed, loopVars, cbLog, saved, disk, outcome>>

\* a variant of RetryFold that differs from the code: a failed retry is
\* followed by another backoff and another retry
RetryFoldAgain ==
    /\ pc = "retry"
    /\ call[0].pc = "finished"
    /\ IF call[0].error = NoError
       THEN /\ Progress(cur, StoreRetry(translation_results, task_batches[cur],
                                        call[0].texts))
            /\ cur' = 0
       ELSE /\ pc' = "sleep"
            /\ UNCHANGED <<loopVars, cbLog, outcome>>
    /\ call' = [call EXCEPT ![0] = IdleCall]
    /\ UNCHANGED <<envVars, nodeText, taskVars, processed, failed,
                   deepl_translator, constructed, returned, resp, saved, disk>>

\* lines 769-790: the retry has returned
RetryFold ==
    /\ pc = "retry"
    /\ call[0].pc = "finished"
    /\ Progress(cur, IF call[0].error = NoError
                     THEN StoreRetry(translation_results, task_batches[cur],
                                     call[0].texts)
                     ELSE translation_results)
    /\ cur' = 0
    /\ call' = [call EXCEPT ![0] = IdleCall]
    /\ UNCHANGED <<envVars, nodeText, taskVars, processed, failed,
                   deepl_translator, constructed, returned, resp, saved, disk>>

\* ------------------------------------------------------------ steps 4 and 5
\* `if error is None and translated_text`
Applicable(r, task) ==
    /\ task.idx \in DOMAIN r
    /\ r[task.idx].error = NoError
    /\ Truthy(r[task.idx].text)

\* a variant of CountFailed that differs from the code: only results carrying
\* an error are counted
CountFailedErrorsOnly(r) ==
    Cardinality({k \in 1..Len(api_tasks) :
        /\ api_tasks[k].idx \in DOMAIN r
        /\ r[api_tasks[k].idx].error # NoError})

\* lines 818-823: failed += 1 for every task with an error, an empty or no result
CountFailed(r) ==
    Cardinality({k \in 1..Len(api_tasks) : ~Applicable(r, api_tasks[k])})

\* lines 806-823: the results are applied in the order of api_tasks
ApplyResults ==
    /\ pc = "apply"
    /\ \E x \in RaiseChoices(1) :
         /\ cbLog' = Logged(<< <<processed, total_count, "applying">> >>, x)
         /\ IF x = 0
            THEN \E good \in {SelectSeq(api_tasks,
                               LAMBDA t : Applicable(translation_results, t))} :
                 \E hits \in {[k \in 1..Len(good) |->
                                [node |-> good[k].node,
                                 new |-> translation_results[good[k].idx].text]]} :
                    /\ nodeText' = ApplyAll(nodeText, hits)
                    /\ processed' = processed + Len(good)
                    /\ failed' = failed + CountFailed(translation_results)
                    /\ pc' = "save"
                    /\ UNCHANGED outcome
            ELSE /\ UNCHANGED <<nodeText, processed, failed>>
                 /\ Abort
    /\ UNCHANGED <<envVars, taskVars, poolVars, loopVars, saved, disk>>

\* a variant of SaveReports that differs from the code: the summary reports
\* the units translated, not total_count
SaveReportsProcessed ==
    << <<total_count, total_count, "saving">>,
       <<processed, total_count,
         IF failed > 0 THEN "done_with_failures" ELSE "done">> >>

\* lines 826-827 and 835-839: the report before doc.save and the summary
SaveReports ==
    << <<total_count, total_count, "saving">>,
       <<total_count, total_count,
         IF failed > 0 THEN "done_with_failures" ELSE "done">> >>

\* lines 825-841: report, save the new artifact, report the summary, return
SaveDocument ==
    /\ pc = "save"
    /\ LET entries == SaveReports
       IN \E x \in RaiseChoices(2) :
            /\ cbLog' = Logged(entries, x)
            /\ saved' = IF x = 1 THEN saved ELSE Append(saved, nodeText)
            /\ disk' = IF x = 1 THEN disk
                       ELSE (OutputPath(docx_path) :> nodeText) @@ disk
            /\ IF x = 0
               THEN pc' = "done" /\ outcome' = "returned"
               ELSE Abort
    /\ UNCHANGED <<envVars, nodeText, taskVars, processed, failed, poolVars,
                   loopVars>>

\* ------------------------------------------------------------ specification
Next ==
    \/ LoadAndExtract
    \/ GlossaryPass
    \/ SubmitBatches
    \/ \E b \in 1..Len(task_batches) : WorkerTake(b)
    \/ \E c \in DOMAIN call : Construct(c)
    \/ \E c \in DOMAIN call : Return(c)
    \/ \E c \in DOMAIN call : ProviderCall(c)
    \/ \E b \in 1..Len(task_batches) : Fold(b)
    \/ RetryBegin
    \/ RetryFold
    \/ ApplyResults
    \/ SaveDocument

Spec == Init /\ [][Next]_vars

\* the runs of a process whose client exists: _get_deepl_translator only
\* returns the global
NextPool ==
    \/ LoadAndExtract
    \/ GlossaryPass
    \/ SubmitBatches
    \/ \E b \in 1..Len(task_batches) : WorkerTake(b)
    \/ \E c \in DOMAIN call : ProviderCall(c)
    \/ \E b \in 1..Len(task_batches) : Fold(b)
    \/ RetryBegin
    \/ RetryFold
    \/ ApplyResults
    \/ SaveDocument

SpecPool == InitPool /\ [][NextPool]_vars

\* documents of ordinary texts, the first node possibly a glossary key
BatchDocs ==
    { [i \in 1..n |-> IF i = 1 THEN first ELSE <<"src", i, FALSE>>] :
        n \in 0..MaxCandidates, first \in {<<"src", 1, FALSE>>, <<"key", 1, FALSE>>} }

InitBatch ==
    /\ orig \in BatchDocs
    /\ GLOSSARY = OneTerm
    /\ credentials = BothKeys
    /\ cbMode = "none"
    /\ target_language \in {"Yingyu", "Riyu"}
    /\ provider = PoolAnswer
    /\ args = NoArgs
    /\ NoClient
    /\ docx_path = DefaultPath
    /\ deepseek = NotCalled
    /\ InitRun

\* the run up to the submission of the batches
NextBatch ==
    \/ LoadAndExtract
    \/ GlossaryPass
    \/ SubmitBatches

SpecBatch == InitBatch /\ [][NextBatch]_vars

\* ------------------------------------------------------------ direct calls
\* translate_text, call_deepl_api and call_deepl_api_batch called outside a
\* document run, as the pages of the application and src/test_api.py call them
ArgTexts(i) == {<<"src", i, FALSE>>, GlossaryKey, <<"key", 1, TRUE>>}

ArgLists ==
    UNION { { l \in [1..n -> UNION {ArgTexts(i) : i \in 1..n}] :
                \A i \in 1..n : l[i] \in ArgTexts(i) } : n \in 0..MaxTexts }

LangCodes == {"EN-US", "en-gb", "JA"}

ClientArgs ==
    { [fn |-> "call_deepl_api_batch", texts |-> l, lang |-> c] :
        l \in ArgLists, c \in LangCodes }
    \cup { [fn |-> "call_deepl_api", texts |-> <<t>>, lang |-> c] :
             t \in ArgTexts(1), c \in LangCodes }
    \cup { [fn |-> "translate_text", texts |-> <<t>>, lang |-> n] :
             t \in ArgTexts(1), n \in Languages }

ClientAnswer ==
    [shapes |-> ProviderShapes, errors |-> ProviderErrors, faults |-> ClientFaults]

InitClient ==
    /\ orig = <<>>
    /\ GLOSSARY = OneTerm
    /\ credentials \in CredentialChoices
    /\ cbMode = "none"
    /\ target_language = "Yingyu"
    /\ provider = ClientAnswer
    /\ args \in ClientArgs
    /\ NoClient
    /\ docx_path = DefaultPath
    /\ deepseek = NotCalled
    /\ InitRun

\* the process may make one more direct call
MayCall == call[0].pc = "idle" /\ Len(replies) < MaxCalls

\* call_deepl_api_batch(texts, target_lang) is called: [] for no texts, else
\* the glossary split and the client
DirectBatch ==
    /\ args.fn = "call_deepl_api_batch"
    /\ MayCall
    /\ IF args.texts = <<>>
       THEN /\ call' = [call EXCEPT ![0] = Finished(0, <<>>, NoError)]
            /\ UNCHANGED <<resp, returned>>
       ELSE CallEnter(0, 0)
    /\ UNCHANGED <<envVars, nodeText, pc, taskVars, processed, failed,
                   deepl_translator, constructed, loopVars, cbLog, saved, disk, outcome>>

\* a variant of SingleGlossaryHit that differs from the code: the text is
\* looked up as it is, not trimmed
SingleGlossaryHitUntrimmed(text, target_lang) ==
    StartsWithEN(target_lang) /\ text \in DOMAIN GLOSSARY

\* target_lang.upper().startswith("EN") and text_stripped in GLOSSARY
SingleGlossaryHit(text, target_lang) ==
    StartsWithEN(target_lang) /\ Strip(text) \in DOMAIN GLOSSARY

\* translate_text(text, target_language) or call_deepl_api(text, target_lang)
\* is called: the glossary value on a hit, else _get_deepl_translator's test of
\* the global
DirectSingle ==
    /\ args.fn \in {"translate_text", "call_deepl_api"}
    /\ MayCall
    /\ LET text == args.texts[1]
       IN IF SingleGlossaryHit(text, SingleLang)
          THEN /\ call' = [call EXCEPT ![0] =
                             Finished(0, <<GLOSSARY[Strip(text)]>>, NoError)]
               /\ UNCHANGED returned
          ELSE IF deepl_translator = 0
          THEN /\ call' = [call EXCEPT ![0].pc = "construct"]
               /\ UNCHANGED returned
          ELSE /\ call' = [call EXCEPT ![0].pc = "net", ![0].inst = deepl_translator]
               /\ returned' = returned \cup {deepl_translator}
    /\ UNCHANGED <<envVars, nodeText, pc, taskVars, processed, failed,
                   deepl_translator, constructed, resp, loopVars, cbLog, saved, disk,
                   outcome>>

\* call_deepl_api: translator.translate_text(text) answers result.text or
\* raises, and the exception is mapped
ProviderCallSingle ==
    /\ Single(0)
    /\ call[0].pc = "net"
    /\ \/ \E shape \in provider.shapes \cap {"ok", "blank"} :
            /\ shape = "ok" \/ MayFail
            /\ call' = [call EXCEPT ![0] =
                  Finished(0, ProviderReply(args.texts, shape), NoError)]
            /\ resp' = Record(0, 0, shape, NoError)
       \/ \E e \in provider.errors :
            /\ MayFail
            /\ call' = [call EXCEPT ![0] = Finished(0, <<>>, e)]
            /\ resp' = Record(0, 0, "raise", e)
    /\ UNCHANGED <<envVars, nodeText, pc, taskVars, processed, failed,
                   deepl_translator, constructed, returned, loopVars, cbLog,
                   saved, disk, outcome>>

\* the direct call returns its value or raises its exception to the caller
DirectReturn ==
    /\ args.fn # "none"
    /\ call[0].pc = "finished"
    /\ replies' = Append(replies, [texts |-> call[0].texts, error |-> call[0].error])
    /\ call' = [call EXCEPT ![0] = IdleCall]
    /\ UNCHANGED <<GLOSSARY, credentials, target_language, cbMode, provider, orig,
                   docx_path, deepseek,
                   args, nodeText, pc, taskVars, processed, failed,
                   deepl_translator, constructed, returned, resp, loopVars,
                   cbLog, saved, disk, outcome>>

NextClient ==
    \/ DirectBatch
    \/ DirectSingle
    \/ \E c \in DOMAIN call : Construct(c)
    \/ \E c \in DOMAIN call : Return(c)
    \/ \E c \in DOMAIN call : ProviderCall(c)
    \/ ProviderCallSingle
    \/ DirectReturn

SpecClient == InitClient /\ [][NextClient]_vars

\* ------------------------------------------------------------ chat client
\* An error text of the chat provider is the set of the words it contains.
Lower(word) ==
    CASE word = "Unauthorized" -> "unauthorized"
      [] word = "Rate Limit" -> "rate limit"
      [] word = "Timed Out" -> "timed out"
      [] word = "Connection" -> "connection"
      [] OTHER -> word

\* `word in error_msg.lower()`; "connect" is part of "connection"
InLower(word, error_msg) ==
    \E w \in error_msg :
        Lower(w) = word \/ (word = "connect" /\ Lower(w) = "connection")

\* line 159
IsAuthText(error_msg) == "401" \in error_msg \/ InLower("unauthorized", error_msg)

\* line 163
IsRateText(error_msg) == "429" \in error_msg \/ InLower("rate limit", error_msg)

\* line 179
IsTimeoutText(error_msg) ==
    InLower("timeout", error_msg) \/ InLower("timed out", error_msg)

\* lines 172-173
IsConnectText(error_msg) ==
    \/ IsTimeoutText(error_msg)
    \/ InLower("connection", error_msg) \/ InLower("connect", error_msg)

DeepseekErrors ==
    { {"401"}, {"Unauthorized"}, {"429"}, {"Rate Limit"}, {"timeout"},
      {"Timed Out"}, {"Connection"}, {"connect"}, {"500"},
      {"401", "429"}, {"429", "timeout"}, {"unauthorized", "connection"} }

\* lines 164, 174, 185, `attempt < max_retries - 1`: another attempt follows this one
AttemptsLeft(attempt, max_retries) == attempt < max_retries - 1

\* a variant of WaitTime that differs from the code: every retried error
\* waits the same two seconds
WaitTimeFlat(error_msg, attempt) == 2

\* the seconds slept before the next attempt: lines 165, 175 and 189
WaitTime(error_msg, attempt) ==
    IF IsRateText(error_msg) THEN (attempt + 1) * 5
    ELSE IF IsConnectText(error_msg) THEN (attempt + 1) * 2
    ELSE 2

\* the exception the handler raises when it raises: lines 160, 169, 179-182, 186
RaisedFor(error_msg) ==
    IF IsAuthText(error_msg) THEN "auth"
    ELSE IF IsRateText(error_msg) THEN "rate"
    ELSE IF IsTimeoutText(error_msg) THEN "timeout"
    ELSE IF IsConnectText(error_msg) THEN "connection"
    ELSE "error"

\* lines 112-134: the key from the secrets, else from the environment; no
\* key raises ValueError
DeepseekEnter ==
    /\ deepseek.pc = "called"
    /\ LET api_key == IF deepseek.secrets # "" THEN deepseek.secrets ELSE deepseek.env
       IN deepseek' = IF api_key = ""
                      THEN [deepseek EXCEPT !.pc = "raised", !.raised = "ValueError"]
                      ELSE [deepseek EXCEPT !.pc = "loop"]
    /\ UNCHANGED <<GLOSSARY, credentials, target_language, cbMode, provider, orig,
                   args, replies, docx_path, nodeText, pc, taskVars, processed,
                   failed, poolVars, loopVars, cbLog, saved, disk, outcome>>

\* lines 138-190, one turn of the loop: the provider's reply is returned, or
\* its exception is handled: raised as a new exception, or slept on before
\* the next turn
DeepseekAttempt ==
    /\ deepseek.pc = "loop"
    /\ deepseek.attempt < deepseek.max_retries
    /\ \/ deepseek' = [deepseek EXCEPT
                          !.pc = "returned",
                          !.log = Append(@, [error |-> {"None"}, wait |-> 0])]
       \/ \E error_msg \in DeepseekErrors :
            IF \/ IsAuthText(error_msg)
               \/ ~AttemptsLeft(deepseek.attempt, deepseek.max_retries)
            THEN deepseek' = [deepseek EXCEPT
                                !.pc = "raised",
                                !.raised = RaisedFor(error_msg),
                                !.last_exception = error_msg,
                                !.log = Append(@, [error |-> error_msg, wait |-> 0])]
            ELSE deepseek' = [deepseek EXCEPT
                                !.attempt = @ + 1,
                                !.last_exception = error_msg,
                                !.log = Append(@, [error |-> error_msg,
                                                   wait |-> WaitTime(error_msg,
                                                                deepseek.attempt)])]
    /\ UNCHANGED <<GLOSSARY, credentials, target_language, cbMode, provider, orig,
                   args, replies, docx_path, nodeText, pc, taskVars, processed,
                   failed, poolVars, loopVars, cbLog, saved, disk, outcome>>

\* line 193: the loop has ended without a return or a raise
DeepseekExhausted ==
    /\ deepseek.pc = "loop"
    /\ deepseek.attempt >= deepseek.max_retries
    /\ deepseek' = [deepseek EXCEPT !.pc = "raised", !.raised = "failed"]
    /\ UNCHANGED <<GLOSSARY, credentials, target_language, cbMode, provider, orig,
                   args, replies, docx_path, nodeText, pc, taskVars, processed,
                   failed, poolVars, loopVars, cbLog, saved, disk, outcome>>

\* call_deepseek_api(text, prompt, max_retries = n) is called
InitDeepseek ==
    /\ orig = <<>>
    /\ GLOSSARY = OneTerm
    /\ credentials = BothKeys
    /\ cbMode = "none"
    /\ target_language = "Yingyu"
    /\ provider = AnyAnswer
    /\ args = NoArgs
    /\ NoClient
    /\ docx_path = DefaultPath
    /\ \E s, e \in {"", "sk"}, n \in 0..MaxRetries :
          deepseek = [NotCalled EXCEPT !.pc = "called", !.secrets = s, !.env = e,
                                       !.max_retries = n]
    /\ InitRun

NextDeepseek ==
    \/ DeepseekEnter
    \/ DeepseekAttempt
    \/ DeepseekExhausted

\* every provider call answers or raises within its timeout and every sleep ends
SpecDeepseek == InitDeepseek /\ [][NextDeepseek]_vars /\ WF_vars(NextDeepseek)

\* ------------------------------------------------------------ classifier calls
\* n digits
Run(n) == [i \in 1..n |-> "d"]

ShortStrings == UNION { [1..n -> Alphabet] : n \in 0..MaxStrLen }

\* three runs of digits with a character after each of the first two, an
\* ending, and whitespace around or not
DateLikeStrings ==
    { pad \o Run(a) \o <<x>> \o Run(b) \o <<y>> \o Run(c) \o end \o pad :
        a \in 0..MaxRun, b \in 0..MaxRun, c \in 0..MaxRun,
        x \in DateSeparators \cup {"Nian", "a"},
        y \in DateSeparators \cup {"Yue", " "},
        end \in {<<>>, <<"Ri">>, <<"a">>},
        pad \in {<<>>, <<" ">>} }

InitClassify ==
    /\ orig = <<>>
    /\ GLOSSARY = OneTerm
    /\ credentials = BothKeys
    /\ cbMode = "none"
    /\ target_language = "Yingyu"
    /\ provider = ClientAnswer
    /\ args \in { [fn |-> "_should_translate_text", texts |-> <<str>>, lang |-> ""] :
                    str \in ShortStrings \cup DateLikeStrings }
    /\ NoClient
    /\ docx_path = DefaultPath
    /\ deepseek = NotCalled
    /\ InitRun

\* _should_translate_text(text) is called and returns
Classify ==
    /\ args.fn = "_should_translate_text"
    /\ Len(replies) < MaxCalls
    /\ replies' = Append(replies, [value |-> _should_translate_text(args.texts[1])])
    /\ UNCHANGED <<GLOSSARY, credentials, target_language, cbMode, provider, orig,
                   docx_path, deepseek,
                   args, nodeText, pc, taskVars, processed, failed, poolVars,
                   loopVars, cbLog, saved, disk, outcome>>

NextClassify == Classify

SpecClassify == InitClassify /\ [][NextClassify]_vars

\* ------------------------------------------------------------ long paragraphs
LengthChoices(i) ==
    { <<"long", i, FALSE>>, <<"long", i, TRUE>>, <<"max", i, FALSE>>,
      <<"max", i, TRUE>>, <<"src", i, FALSE>> }

\* documents of one or two paragraphs around the length limit
LengthDocs ==
    { <<a>> : a \in LengthChoices(1) }
    \cup { <<a, b>> : a \in LengthChoices(1), b \in LengthChoices(2) }

InitLength ==
    /\ orig \in LengthDocs
    /\ GLOSSARY = OneTerm
    /\ credentials = BothKeys
    /\ cbMode = "none"
    /\ target_language \in {"Yingyu", "Riyu"}
    /\ provider = PoolAnswer
    /\ args = NoArgs
    /\ NoClient
    /\ docx_path = DefaultPath
    /\ deepseek = NotCalled
    /\ InitRun

SpecLength == InitLength /\ [][Next]_vars

\* ------------------------------------------------------------ every error text
\* the texts a provider exception may carry: an ordinary one, and texts that
\* name the rate limit
RateLimitTexts == {<<"429">>, <<"rate limit">>, <<"Rate Limit">>, <<"TooManyRequests">>}

AnyErrorText ==
    UNION { {ProviderError(k, m) : m \in {<<"timed out">>} \cup RateLimitTexts} :
              k \in ErrorKinds }

\* a provider that answers in full or fails with any exception and text
FailingAnswer == [shapes |-> {"ok"}, errors |-> AnyErrorText, faults |-> MaxFaults]

\* document runs of one batch against that provider
InitRetry ==
    /\ orig \in { << <<"src", 1, FALSE>> >>, << <<"src", 1, FALSE>>, <<"src", 2, FALSE>> >> }
    /\ GLOSSARY = OneTerm
    /\ credentials = BothKeys
    /\ cbMode = "none"
    /\ target_language = "Riyu"
    /\ provider = FailingAnswer
    /\ args = NoArgs
    /\ NoClient
    /\ docx_path = DefaultPath
    /\ deepseek = NotCalled
    /\ InitRun

SpecRetry == InitRetry /\ [][Next]_vars

\* ------------------------------------------------------------ every language
\* the names the callers may pass: those of language_map and two it lacks
AllNames == MappedNames \cup {"French", "English"}

\* documents that hold the glossary key
KeyDocs ==
    { <<GlossaryKey>>, << <<"key", 1, TRUE>> >>, << <<"src", 1, FALSE>>, GlossaryKey >> }

\* a document run or direct calls, for every language name and code
InitLang ==
    /\ GLOSSARY = OneTerm
    /\ credentials \in {BothKeys, [secrets |-> "", env |-> ""]}
    /\ cbMode = "none"
    /\ provider = PoolAnswer
    /\ \/ /\ orig \in KeyDocs
          /\ target_language \in AllNames
          /\ args = NoArgs
       \/ /\ orig = <<>>
          /\ target_language = "Yingyu"
          /\ args \in { [fn |-> "translate_text", texts |-> <<t>>, lang |-> n] :
                          t \in ArgTexts(1), n \in AllNames }
                     \cup { a \in ClientArgs : a.fn # "translate_text" /\ a.texts # <<>> }
    /\ NoClient
    /\ docx_path = DefaultPath
    /\ deepseek = NotCalled
    /\ InitRun

\* a process runs a document or makes direct calls
NextLang ==
    \/ LoadAndExtract
    \/ GlossaryPass
    \/ SubmitBatches
    \/ \E b \in 1..Len(task_batches) : WorkerTake(b)
    \/ \E c \in DOMAIN call : Construct(c)
    \/ \E c \in DOMAIN call : Return(c)
    \/ \E c \in DOMAIN call : ProviderCall(c)
    \/ \E b \in 1..Len(task_batches) : Fold(b)
    \/ RetryBegin
    \/ RetryFold
    \/ ApplyResults
    \/ SaveDocument
    \/ DirectBatch
    \/ DirectSingle
    \/ ProviderCallSingle
    \/ DirectReturn

SpecLang == InitLang /\ [][NextLang]_vars

\* ------------------------------------------------------------ two batches
\* a provider that answers in full or one translation short, or fails, with
\* the error that names the status 429 or with a connection failure
RetryAnswer ==
    [shapes |-> {"ok", "short"},
     errors |-> {ProviderError("DeepLException", <<"429">>),
                 ProviderError("Connection", <<"timed out">>)},
     faults |-> MaxFaults]

\* runs of a document of two batches against that provider
InitTwoBatches ==
    /\ orig = [i \in 1..LargeSize |-> <<"src", i, FALSE>>]
    /\ GLOSSARY = OneTerm
    /\ credentials = BothKeys
    /\ cbMode \in {"none", "returns"}
    /\ target_language = "Riyu"
    /\ provider = RetryAnswer
    /\ args = NoArgs
    /\ NoClient
    /\ docx_path = DefaultPath
    /\ deepseek = NotCalled
    /\ InitRun

SpecTwoBatches == InitTwoBatches /\ [][Next]_vars

\* ------------------------------------------------------------ termination
\* the callers of a run of a document of LargeSize candidates: the loop
\* thread and a pool worker per batch
Callers == 0..((LargeSize + batch_size - 1) \div batch_size)

\* a provider every call of which may fail
AlwaysFailing == [RetryAnswer EXCEPT !.faults = 2 * Cardinality(Callers)]

\* later runs of a process (the client exists) with a callback that returns,
\* or none: two batches, one batch, no batch, no task
InitLive ==
    /\ \/ /\ orig = [i \in 1..LargeSize |-> <<"src", i, FALSE>>]
          /\ cbMode = "returns"
          /\ target_language = "Riyu"
       \/ /\ orig \in { << <<"src", 1, FALSE>> >>, <<GlossaryKey>>, <<>> }
          /\ cbMode \in {"none", "returns"}
          /\ target_language \in {"Riyu", "Yingyu"}
    /\ GLOSSARY = OneTerm
    /\ credentials = BothKeys
    /\ provider = AlwaysFailing
    /\ args = NoArgs
    /\ deepl_translator = 1
    /\ constructed = <<ResolveKey(BothKeys)>>
    /\ docx_path = DefaultPath
    /\ deepseek = NotCalled
    /\ InitRun

\* some thread that can take a step does: the orchestrating thread runs on,
\* the pool runs a queued future when a worker is free, and every provider
\* call returns or raises
Fairness == WF_vars(NextPool)

SpecLive == InitLive /\ [][NextPool]_vars /\ Fairness

\* ------------------------------------------------------------ short answers
ShortChoices(i) == { <<"src", i, FALSE>>, <<"src", i, TRUE>> }

\* documents of one or two paragraphs, with whitespace around the text or not
ShortDocs ==
    { <<a>> : a \in ShortChoices(1) }
    \cup { <<a, b>> : a \in ShortChoices(1) \cup {GlossaryKey}, b \in ShortChoices(2) }

\* runs against a provider that may answer one translation short
InitShort ==
    /\ orig \in ShortDocs
    /\ GLOSSARY = OneTerm
    /\ credentials = BothKeys
    /\ cbMode = "returns"
    /\ target_language \in {"Riyu", "Yingyu"}
    /\ provider = RetryAnswer
    /\ args = NoArgs
    /\ NoClient
    /\ docx_path = DefaultPath
    /\ deepseek = NotCalled
    /\ InitRun

SpecShort == InitShort /\ [][Next]_vars

\* ------------------------------------------------------------ saving
\* names of source documents: with a suffix in either case, with another or
\* none, already carrying the prefix of the output, with two suffixes
SourceNames ==
    { <<"a", ".docx">>, <<"a", ".DOCX">>, <<"a", ".doc">>, <<"a">>,
      <<"translated_", "a", ".docx">>, <<"a", ".docx", ".docx">>, <<".docx">> }

SourcePaths == {[parent |-> d, name |-> n] : d \in {"dir"}, n \in SourceNames}

\* runs of a one-paragraph document stored under each of the names
InitSave ==
    /\ orig \in { << <<"src", 1, FALSE>> >>, <<GlossaryKey>> }
    /\ GLOSSARY = OneTerm
    /\ credentials = BothKeys
    /\ cbMode \in {"none", "raises"}
    /\ target_language = "Yingyu"
    /\ provider = PoolAnswer
    /\ args = NoArgs
    /\ NoClient
    /\ docx_path \in SourcePaths
    /\ deepseek = NotCalled
    /\ InitRun

SpecSave == InitSave /\ [][Next]_vars

\* ------------------------------------------------------------ the scenario
\* a document of ScenarioSize translatable paragraphs, ScenarioKeys of them
\* keys of the glossary, and a provider that answers every call in full
ScenarioKey(j) == <<"key", j, FALSE>>

ScenarioGlossary == [k \in {ScenarioKey(j) : j \in 1..ScenarioKeys} |-> <<"gl", k[2], FALSE>>]

\* where the keys stand in the document: at its start, at its end, or spread
\* ScenarioStride nodes apart
KeyPlacements ==
    { [j \in 1..ScenarioKeys |-> j],
      [j \in 1..ScenarioKeys |-> ScenarioSize - ScenarioKeys + j],
      [j \in 1..ScenarioKeys |-> (j - 1) * ScenarioStride + 1] }

ScenarioDoc(place) ==
    [n \in 1..ScenarioSize |->
        IF \E j \in 1..ScenarioKeys : place[j] = n
        THEN ScenarioKey(CHOOSE j \in 1..ScenarioKeys : place[j] = n)
        ELSE <<"src", n, FALSE>>]

NoFaultAnswer == [shapes |-> {"ok"}, errors |-> {}, faults |-> 0]

InitScenario ==
    /\ orig \in {ScenarioDoc(place) : place \in KeyPlacements}
    /\ GLOSSARY = ScenarioGlossary
    /\ credentials = BothKeys
    /\ cbMode \in {"none", "returns"}
    /\ target_language \in {"English", "Yingyu"}
    /\ provider = NoFaultAnswer
    /\ args = NoArgs
    /\ NoClient
    /\ docx_path = DefaultPath
    /\ deepseek = NotCalled
    /\ InitRun

\* no provider call fails, so the loop never retries
NextScenario ==
    \/ LoadAndExtract
    \/ GlossaryPass
    \/ SubmitBatches
    \/ \E b \in 1..Len(task_batches) : WorkerTake(b)
    \/ \E c \in DOMAIN call : Construct(c)
    \/ \E c \in DOMAIN call : Return(c)
    \/ \E c \in DOMAIN call : ProviderCall(c)
    \/ \E b \in 1..Len(task_batches) : Fold(b)
    \/ ApplyResults
    \/ SaveDocument

SpecScenario == InitScenario /\ [][NextScenario]_vars

\* ------------------------------------------------------------ properties
ApiIdxs == IdxsOf(api_tasks)

TaskAt(i) == translation_tasks[i + 1]

NodeOf(i) == TaskAt(i).node

\* units resolved by translate_word_document's own glossary pass
GlossaryUnits == IdxsOf(translation_tasks) \ ApiIdxs

AppliedUnits == {i \in ApiIdxs : Applicable(translation_results, TaskAt(i))}

FailedUnits == ApiIdxs \ AppliedUnits

CallbackReturns == cbMode # "raises"

\* the batch holding the k-th API candidate, and the candidate's place in it
BatchOf(k) == ((k - 1) \div batch_size) + 1

PlaceOf(k) == ((k - 1) % batch_size) + 1

Called(b, a) == <<b, a>> \in DOMAIN resp

\* C1: in a run that returns normally every extracted task has exactly one
\* outcome - applied from the glossary, applied from an API result, or counted
\* as failed - so processed + failed = total_count, processed being the
\* glossary hits plus the API successes.
C1_ExactlyOneOutcome ==
    outcome = "returned" =>
        /\ processed = Cardinality(GlossaryUnits) + Cardinality(AppliedUnits)
        /\ failed = Cardinality(FailedUnits)
        /\ processed + failed = total_count
        /\ \A i \in GlossaryUnits : nodeText[NodeOf(i)] = GLOSSARY[TaskAt(i).text]
        /\ \A i \in AppliedUnits :
               nodeText[NodeOf(i)] = translation_results[i].text
        /\ \A i \in FailedUnits : nodeText[NodeOf(i)] = orig[NodeOf(i)]

\* a run that returned with units of all three outcomes
C1_Witness ==
    /\ outcome = "returned"
    /\ GlossaryUnits # {} /\ AppliedUnits # {} /\ FailedUnits # {}

\* the texts derived from a task's own source text
OwnTexts(t) ==
    {t.text, Translate(t.text)}
        \cup (IF t.text \in DOMAIN GLOSSARY THEN {GLOSSARY[t.text]} ELSE {})

\* the provider answered the batch in full, at once or on the retry
AnsweredInFull(b) ==
    /\ Called(b, 1)
    /\ \/ resp[<<b, 1>>].shape = "ok"
       \/ /\ IsRateLimitMessage(resp[<<b, 1>>].error)
          /\ Called(b, 2)
          /\ resp[<<b, 2>>].shape = "ok"

\* C2: whatever the order in which the batches complete, the node of an API
\* candidate never holds a text derived from another unit: it holds its original
\* text or a text derived from its own source text, and after a run in which the
\* provider answered its batch in full it holds the provider's translation of
\* its own source text.
C2_OwnTranslation ==
    \A k \in 1..Len(api_tasks) :
        LET t == api_tasks[k]
        IN /\ nodeText[t.node] \in {orig[t.node]} \cup OwnTexts(t)
           /\ ( /\ outcome = "returned"
                /\ CallbackReturns
                /\ AnsweredInFull(BatchOf(k))
                /\ ~BatchGlossaryHit(t.text, target_lang_code) )
              => nodeText[t.node] = Translate(t.text)

\* the first progress report of the loop was made for the second batch
SecondBatchFirst ==
    /\ Len(task_batches) = 2
    /\ \E i \in 1..Len(cbLog) :
         /\ cbLog[i][3] = "progress"
         /\ \A j \in 1..(i - 1) : cbLog[j][3] # "progress"
         /\ cbLog[i][1] = Cardinality(GlossaryUnits) + Len(task_batches[2])

\* two batches answered in full, the second folded first, the run returned
C2_Witness ==
    /\ outcome = "returned"
    /\ Len(task_batches) = 2
    /\ AnsweredInFull(1) /\ AnsweredInFull(2)
    /\ \E i \in 1..Len(cbLog) :
         cbLog[i] = <<Len(task_batches[2]), total_count, "progress">>
    /\ \A k \in 1..Len(api_tasks) :
         nodeText[api_tasks[k].node] = Translate(api_tasks[k].text)

\* what call_deepl_api_batch returns for batch b on the provider outcome o
ReplyTexts(b, o) ==
    LET texts == TextsOf(task_batches[b])
    IN IF o.shape = "glossary"
       THEN FinalResults(texts, target_lang_code, <<>>)
       ELSE FinalResults(texts, target_lang_code,
                         ProviderReply(ApiTexts(texts, target_lang_code), o.shape))

\* the texts recorded for batch b as a function of the provider's outcomes
\* alone (<<>>: the batch failed)
ExpectedTexts(b) ==
    LET first == resp[<<b, 1>>]
    IN IF first.error = NoError THEN ReplyTexts(b, first)
       ELSE IF IsRateLimitMessage(first.error) /\ resp[<<b, 2>>].error = NoError
       THEN ReplyTexts(b, resp[<<b, 2>>])
       ELSE <<>>

\* C3: the node texts and the counters a run ends with are a function of the
\* document, the language, the glossary and the provider's answer to each batch
\* call; the order in which the batches complete does not enter.
C3_Deterministic ==
    (outcome = "returned" /\ CallbackReturns) =>
        LET expected == [b \in 1..Len(task_batches) |-> ExpectedTexts(b)]
            applied == {k \in 1..Len(api_tasks) :
                          /\ expected[BatchOf(k)] # <<>>
                          /\ Truthy(expected[BatchOf(k)][PlaceOf(k)])}
            glossaryNodes == {NodeOf(i) : i \in GlossaryUnits}
            appliedAt == [k \in applied |-> api_tasks[k].node]
            nodes == [n \in DOMAIN orig |->
                        IF n \in glossaryNodes THEN GLOSSARY[Strip(orig[n])]
                        ELSE IF \E k \in applied : appliedAt[k] = n
                        THEN (LET k == CHOOSE k \in applied : appliedAt[k] = n
                              IN expected[BatchOf(k)][PlaceOf(k)])
                        ELSE orig[n]]
        IN /\ nodeText = nodes
           /\ processed = Cardinality(GlossaryUnits) + Cardinality(applied)
           /\ failed = Len(api_tasks) - Cardinality(applied)

\* a returned run of two batches, the second folded first, one of them retried
C3_Witness ==
    /\ outcome = "returned"
    /\ CallbackReturns
    /\ SecondBatchFirst
    /\ Called(1, 2)
    /\ resp[<<1, 2>>].shape = "short"

\* a provider error other than the rate limit
NonRateLimitError(o) == o.error.kind \in ErrorKinds \ {"TooManyRequests"}

\* the provider failed batch b with such an error on every call made for it and
\* answered the first call of every other batch in full
OnlyBatchFailing(b) ==
    /\ b \in 1..Len(task_batches)
    /\ \A b2 \in 1..Len(task_batches) : Called(b2, 1)
    /\ NonRateLimitError(resp[<<b, 1>>])
    /\ Called(b, 2) => NonRateLimitError(resp[<<b, 2>>])
    /\ \A b2 \in 1..Len(task_batches) : b2 # b => resp[<<b2, 1>>].shape = "ok"

C5_RateLimitRetriedOnce ==
    ( /\ outcome = "returned"
      /\ Len(task_batches) = 1
      /\ Called(1, 1)
      /\ resp[<<1, 1>>].error.kind = "TooManyRequests" )
    => /\ Called(1, 2)
       /\ IF resp[<<1, 2>>].shape = "ok"
          THEN /\ failed = 0
               /\ \A k \in 1..Len(api_tasks) :
                    nodeText[api_tasks[k].node] # orig[api_tasks[k].node]
          ELSE resp[<<1, 2>>].shape = "raise" =>
               /\ failed = Len(task_batches[1])
               /\ \A k \in 1..Len(api_tasks) :
                    nodeText[api_tasks[k].node] = orig[api_tasks[k].node]

\* C7: with no credentials, a run that attempts a provider translation aborts:
\* it does not return an output path.
C7_MissingCredentialsAbort ==
    ( /\ ResolveKey(credentials) = ""
      /\ \E b \in 1..Len(task_batches) :
           Called(b, 1) /\ resp[<<b, 1>>].error = ConfigError )
    => outcome # "returned"

\* the node of a unit holds a non-empty text taken from the glossary or from
\* the successful result recorded for the unit
HoldsTranslation(i) ==
    LET text == nodeText[NodeOf(i)]
    IN /\ Truthy(text)
       /\ \/ TaskAt(i).text \in DOMAIN GLOSSARY /\ text = GLOSSARY[TaskAt(i).text]
          \/ /\ i \in DOMAIN translation_results
             /\ translation_results[i] = Success(text)

\* C8: translation never deletes content: a node holds its original text or a
\* non-empty translation from the glossary or from a successful result of the
\* same unit, and at the end a unit whose result is missing, an error or the
\* empty string has kept its original text and is counted in failed.
C8_NeverDeletes ==
    /\ \A n \in DOMAIN nodeText :
         \/ nodeText[n] = orig[n]
         \/ \E i \in IdxsOf(translation_tasks) : NodeOf(i) = n /\ HoldsTranslation(i)
    /\ outcome = "returned" =>
         /\ \A i \in FailedUnits : nodeText[NodeOf(i)] = orig[NodeOf(i)]
         /\ failed = Cardinality(FailedUnits)

\* C9: however the callers of _get_deepl_translator interleave, one client is
\* constructed and every caller returns that one.
C9_SingleClient ==
    /\ Len(constructed) <= 1
    /\ Cardinality(returned) <= 1

\* a step loses no recorded result: an entry stays, and changes only when it
\* is a failure of the batch being retried
NoResultLost ==
    \A i \in DOMAIN translation_results :
        /\ i \in DOMAIN translation_results'
        /\ translation_results'[i] # translation_results[i] =>
             /\ cur # 0
             /\ i \in IdxsOf(task_batches[cur])
             /\ translation_results[i].error # NoError

C6_AtMostFiveInFlight == Cardinality(InFlight) <= max_workers

\* C6 as amended: at most max_workers batch calls are in flight in pool
\* workers; the retry call of the orchestrating thread runs beside them, which
\* makes at most max_workers + 1 calls in flight.
C6_PoolBounded ==
    /\ Cardinality(PoolBusy) <= max_workers
    /\ Cardinality(InFlight) <= max_workers + 1

\* the retry call in flight beside max_workers pool calls
C6_Witness ==
    /\ call[0].pc = "net"
    /\ Cardinality(PoolBusy) = max_workers

\* the messages of the summary report (lines 836-839)
TerminalMessages == {"done", "done_with_failures"}

\* the callback's invocations that report current = total = total_count
FullReports ==
    {i \in 1..Len(cbLog) : cbLog[i][1] = total_count /\ cbLog[i][2] = total_count}

TerminalReports == {i \in 1..Len(cbLog) : cbLog[i][3] \in TerminalMessages}

\* C11 as stated: in a run that returns with a callback, the callback's last
\* invocation is (total_count, total_count, terminal message), and no earlier
\* invocation reports current = total = total_count.
C11_TerminalOnlyFullReport ==
    (outcome = "returned" /\ cbMode = "returns") =>
        /\ TerminalReports = {Len(cbLog)}
        /\ FullReports = {Len(cbLog)}

\* C11 as amended: in a run that returns with a callback, the terminal message
\* is delivered exactly once, as the last invocation, with
\* (total_count, total_count); earlier invocations may report the same pair
\* with another message, as the report before saving always does.
C11_TerminalOnceAtEnd ==
    (outcome = "returned" /\ cbMode = "returns") =>
        /\ TerminalReports = {Len(cbLog)}
        /\ Len(cbLog) \in FullReports
        /\ Len(cbLog) - 1 \in FullReports
        /\ cbLog[Len(cbLog) - 1][3] = "saving"

\* a returned run with failed units whose report before saving already gave
\* current = total = total_count
C11_Witness ==
    /\ outcome = "returned" /\ cbMode = "returns"
    /\ failed > 0 /\ processed > 0
    /\ cbLog[Len(cbLog)] = <<total_count, total_count, "done_with_failures">>
    /\ cbLog[Len(cbLog) - 1] = <<total_count, total_count, "saving">>

\* lines 711-720 have run
Batched == pc \notin {"start", "glossary", "submit"}

RECURSIVE Concat(_, _)
\* the concatenation of the first n batches
Concat(batches, n) ==
    IF n = 0 THEN <<>> ELSE Concat(batches, n - 1) \o batches[n]

\* the least m with m * batch_size >= n
CeilDiv(n) == CHOOSE m \in 0..n : m * batch_size >= n /\ (m = 0 \/ (m - 1) * batch_size < n)

\* C12: the batches are the consecutive slices of batch_size of the candidate
\* list in its order: batch k holds candidates batch_size*k up to
\* min(batch_size*k + batch_size - 1, N - 1), their concatenation is the
\* candidate list, every batch is non-empty, every batch but the last is full,
\* there are ceil(N / batch_size) of them, none when N = 0, and the run has
\* one provider language code for all of them.
C12_ConsecutiveSlices ==
    Batched =>
        LET N == Len(api_tasks)
            B == Len(task_batches)
        IN /\ B = CeilDiv(N)
           /\ N = 0 => task_batches = <<>>
           /\ Concat(task_batches, B) = api_tasks
           /\ \A k \in 1..B :
                 /\ task_batches[k] # <<>>
                 /\ k < B => Len(task_batches[k]) = batch_size
                 /\ Len(task_batches[k]) =
                        Min(batch_size * k, N) - batch_size * (k - 1)
                 /\ \A j \in 1..Len(task_batches[k]) :
                        task_batches[k][j] = api_tasks[batch_size * (k - 1) + j]
           /\ N > 0 => target_lang_code = _get_deepl_lang_code(target_language)

\* two full batches of a candidate list that lost its first task to the glossary
C12_Witness ==
    /\ pc = "collect"
    /\ Len(task_batches) = 2
    /\ Len(task_batches[2]) = batch_size
    /\ api_tasks[1].idx = 1

\* the n-th direct call was a call of call_deepl_api_batch that returned
BatchReturned(n) ==
    /\ args.fn = "call_deepl_api_batch"
    /\ n \in 1..Len(replies)
    /\ replies[n].error = NoError

\* the positions of texts that are glossary hits for the language code
HitPositions(texts, lang) ==
    {i \in 1..Len(texts) : StartsWithEN(lang) /\ Strip(texts[i]) \in DOMAIN GLOSSARY}

\* the place of position i among the texts sent to the provider
RankOf(texts, lang, i) ==
    Cardinality({j \in 1..i : j \notin HitPositions(texts, lang)})

\* how the provider answered the n-th direct call ("none": it was not called)
ShapeOf(n) == IF <<0, n>> \in DOMAIN resp THEN resp[<<0, n>>].shape ELSE "none"

\* C13 as stated: a list call_deepl_api_batch returns has the length of its
\* input, a glossary hit holds the glossary value and every other position a
\* result of the provider for its text, however many results the provider
\* returned; no texts give the empty list and no provider call.
C13_EveryPositionTranslated ==
    \A n \in 1..Len(replies) : BatchReturned(n) =>
        LET texts == args.texts
            out == replies[n].texts
            hits == HitPositions(texts, args.lang)
        IN /\ Len(out) = Len(texts)
           /\ \A i \in 1..Len(texts) :
                 IF i \in hits THEN out[i] = GLOSSARY[Strip(texts[i])]
                 ELSE out[i] \in {Translate(texts[i]), EmptyText}
           /\ texts = <<>> => (out = <<>> /\ resp = <<>> /\ constructed = <<>>)

\* C13 as amended: a list call_deepl_api_batch returns has the length of its
\* input; a glossary hit holds the glossary value; every other position holds
\* the provider's result for its text when the provider returned one (results
\* are matched in order to the texts sent, surplus results are dropped) and
\* the text itself when the provider returned too few; no texts give the
\* empty list and no provider call.
C13_SameLengthByPosition ==
    \A n \in 1..Len(replies) : BatchReturned(n) =>
        LET texts == args.texts
            out == replies[n].texts
            hits == HitPositions(texts, args.lang)
            sent == Len(texts) - Cardinality(hits)
            shape == ShapeOf(n)
        IN /\ Len(out) = Len(texts)
           /\ \A i \in 1..Len(texts) :
                 LET r == RankOf(texts, args.lang, i)
                 IN IF i \in hits THEN out[i] = GLOSSARY[Strip(texts[i])]
                    ELSE IF shape = "short" /\ r = sent THEN out[i] = texts[i]
                    ELSE IF shape = "blank" /\ r = 1 THEN out[i] = EmptyText
                    ELSE /\ shape \in {"ok", "short", "long", "blank"}
                         /\ out[i] = Translate(texts[i])
           /\ sent = 0 => shape \in {"none", "glossary"}
           /\ texts = <<>> => (out = <<>> /\ resp = <<>> /\ constructed = <<>>)

\* a glossary hit followed by a text the provider returned no result for
C13_Witness ==
    /\ BatchReturned(1)
    /\ Len(args.texts) = 2
    /\ HitPositions(args.texts, args.lang) = {1}
    /\ ShapeOf(1) = "short"
    /\ replies[1].texts = <<GLOSSARY[GlossaryKey], args.texts[2]>>

\* the values of the glossary
GlossaryValues == {GLOSSARY[k] : k \in DOMAIN GLOSSARY}

\* the language code a run or a direct call works with
ResolvedCode ==
    CASE args.fn = "none" -> _get_deepl_lang_code(target_language)
      [] args.fn = "translate_text" -> _get_deepl_lang_code(args.lang)
      [] OTHER -> args.lang

\* C14: the glossary is used only when the resolved language code starts with
\* EN: with any other code no unit of a document run and no text of a direct
\* call of translate_text, call_deepl_api or call_deepl_api_batch is resolved
\* from the glossary, though its trimmed text is a key, and the test
\* translate_word_document makes on the language name holds for no name whose
\* resolved code is not EN.
C14_GlossaryOnlyForEnglish ==
    /\ \A name \in AllNames :
          NameSaysEnglish(name) => StartsWithEN(_get_deepl_lang_code(name))
    /\ ~StartsWithEN(ResolvedCode) =>
          /\ pc \notin {"start", "glossary"} => GlossaryUnits = {}
          /\ \A n \in DOMAIN nodeText : nodeText[n] \notin GlossaryValues
          /\ \A k \in DOMAIN resp : resp[k].shape # "glossary"
          /\ \A c \in DOMAIN call : \A i \in 1..Len(call[c].texts) :
                call[c].texts[i] \notin GlossaryValues
          /\ \A n \in 1..Len(replies) :
                /\ \A i \in 1..Len(replies[n].texts) :
                      replies[n].texts[i] \notin GlossaryValues
                /\ replies[n].error = NoError => ShapeOf(n) \in ProviderShapes

\* a run into Japanese of a document holding a glossary key: the key went to
\* the provider and its node holds the provider's translation
C14_Witness ==
    /\ args.fn = "none"
    /\ target_language = "Riyu"
    /\ outcome = "returned"
    /\ \E k \in 1..Len(api_tasks) :
          /\ Strip(api_tasks[k].text) \in DOMAIN GLOSSARY
          /\ nodeText[api_tasks[k].node] = Translate(api_tasks[k].text)

\* the language code of the provider call recorded under key k
CodeOfCall(k) == IF k[1] = 0 /\ args.fn = "translate_text" THEN SingleLang ELSE CallLang(k[1])

\* the direct calls translate one text whose trimmed form is a glossary key
\* into English
SingleHit ==
    /\ args.fn \in {"translate_text", "call_deepl_api"}
    /\ HitPositions(args.texts, SingleLang) = {1}

\* C15: a text whose trimmed form is a glossary key, translated into English
\* any number of times, gives the same glossary value every time with no
\* provider call and no client constructed, credentials or not; and no text
\* list sent to the provider, in a document run or a direct call, holds a
\* glossary hit.
C15_GlossaryHitNoProvider ==
    /\ SingleHit =>
          /\ \A n \in 1..Len(replies) :
                replies[n] = [texts |-> <<GLOSSARY[Strip(args.texts[1])]>>,
                              error |-> NoError]
          /\ resp = <<>>
          /\ constructed = <<>> /\ deepl_translator = 0 /\ returned = {}
          /\ call[0].pc \in {"idle", "finished"}
    /\ \A k \in DOMAIN resp :
          HitPositions(resp[k].sent, CodeOfCall(k)) = {}
    /\ pc \notin {"start", "glossary"} =>
          \A i \in GlossaryUnits : \A k \in DOMAIN resp : \A j \in 1..Len(resp[k].sent) :
              resp[k].sent[j] # TaskAt(i).text

\* the padded key translated MaxCalls times into English without credentials
C15_Witness ==
    /\ args = [fn |-> "translate_text", texts |-> << <<"key", 1, TRUE>> >>,
                lang |-> "Yingwen"]
    /\ ResolveKey(credentials) = ""
    /\ Len(replies) = MaxCalls
    /\ \A n \in 1..MaxCalls : replies[n].texts = <<GLOSSARY[GlossaryKey]>>

\* no store holds a key: no client is built, and every call that needs the
\* provider ends in the configuration error, raised when the call is made
NoKeyNoClient ==
    /\ constructed = <<>> /\ deepl_translator = 0
    /\ \A c \in DOMAIN call : call[c].pc \notin {"return", "net"}
    /\ \A k \in DOMAIN resp :
          /\ resp[k].shape \in {"glossary", "raise"}
          /\ resp[k].shape = "raise" => resp[k].error = ConfigError
    /\ \A n \in 1..Len(replies) :
          replies[n].error \in {NoError, ConfigError}

\* C16 as stated: the key of the environment variable is used before the key
\* of the secret store; with no key the configuration error is raised at the
\* first translation attempt.
C16_EnvironmentFirst ==
    /\ (credentials.env # "" /\ credentials.secrets # "") =>
          \A i \in 1..Len(constructed) : constructed[i] = credentials.env
    /\ (credentials.env = "" /\ credentials.secrets = "") => NoKeyNoClient

\* C16 as amended: the key of the secret store is used before the key of the
\* environment variable, which is the fallback; with no key the configuration
\* error is raised at the first translation attempt, not earlier.
C16_SecretsFirst ==
    /\ credentials.secrets # "" =>
          \A i \in 1..Len(constructed) : constructed[i] = credentials.secrets
    /\ (credentials.secrets = "" /\ credentials.env # "") =>
          \A i \in 1..Len(constructed) : constructed[i] = credentials.env
    /\ (credentials.env = "" /\ credentials.secrets = "") => NoKeyNoClient

\* both stores hold a key, and a direct call was answered by the provider
\* through a client built with the key of the secret store
C16_Witness ==
    /\ credentials = BothKeys
    /\ constructed = <<"secrets-key">>
    /\ Len(replies) > 0
    /\ replies[1].error = NoError
    /\ ShapeOf(1) = "ok"

\* the text of the provider's own exception in the first call for batch b
OwnText(b) == Tail(resp[<<b, 1>>].error.msg)

\* the first call for batch b failed with an exception of one of these classes
\* and the loop has handled the batch
FailedWith(b, kinds) ==
    /\ b \in folded
    /\ Called(b, 1)
    /\ resp[<<b, 1>>].error.kind \in kinds

\* the units of batch b are failed units of a returned run
UnitsFailed(b) ==
    outcome = "returned" =>
        /\ failed >= Len(task_batches[b])
        /\ \A k \in 1..Len(task_batches[b]) :
              LET t == task_batches[b][k]
              IN /\ translation_results[t.idx].error # NoError
                 /\ nodeText[t.node] = orig[t.node]

\* C17 as stated: a batch whose provider call fails with the authorization,
\* quota, connection, generic or unknown error is called once, whatever text
\* the error carries, and its units are failed.
C17_NoRetryWhateverText ==
    \A b \in 1..Len(task_batches) :
        FailedWith(b, ErrorKinds \ {"TooManyRequests"}) =>
            /\ ~Called(b, 2)
            /\ UnitsFailed(b)

\* C17 as amended: a batch whose call fails with the authorization or quota
\* error is called once and its units are failed; one whose call fails with
\* the connection, generic or unknown error is called a second time exactly
\* when the text of the provider's exception names the rate limit, and its
\* units are failed unless that second call succeeds.
C17_RetryByErrorText ==
    \A b \in 1..Len(task_batches) :
        /\ FailedWith(b, {"QuotaExceeded", "Authorization"}) =>
              /\ ~Called(b, 2)
              /\ UnitsFailed(b)
        /\ FailedWith(b, {"Connection", "DeepLException", "Unknown"}) =>
              /\ Called(b, 2) <=> OwnText(b) \in RateLimitTexts
              /\ (Called(b, 2) => resp[<<b, 2>>].error # NoError) => UnitsFailed(b)
              /\ (Called(b, 2) /\ resp[<<b, 2>>].shape = "ok" /\ outcome = "returned")
                    => failed = 0

\* a connection error whose text names the status 429 was retried, the retry
\* succeeded and the run returned with nothing failed
C17_Witness ==
    /\ outcome = "returned"
    /\ FailedWith(1, {"Connection"})
    /\ OwnText(1) = <<"429">>
    /\ Called(1, 2)
    /\ resp[<<1, 2>>].shape = "ok"
    /\ failed = 0 /\ processed = total_count

\* the characters of a string
CharsOf(str) == {str[i] : i \in 1..Len(str)}

\* the string without the whitespace around it: l leading and r trailing
\* characters of whitespace are dropped
Core(str) ==
    IF CharsOf(str) \subseteq {" "} THEN <<>>
    ELSE LET l == CHOOSE l \in 0..Len(str) :
                    /\ \A i \in 1..l : str[i] = " "
                    /\ str[l + 1] # " "
             r == CHOOSE r \in 0..Len(str) :
                    /\ \A i \in (Len(str) - r + 1)..Len(str) : str[i] = " "
                    /\ str[Len(str) - r] # " "
         IN SubSeq(str, l + 1, Len(str) - r)

\* the date literals: year-month-day and day-month-year with separators, and
\* the Chinese year-month-day
DateLiterals ==
    { Run(4) \o <<x>> \o Run(b) \o <<y>> \o Run(c) :
        x \in DateSeparators, y \in DateSeparators, b \in 1..2, c \in 1..2 }
    \cup { Run(a) \o <<x>> \o Run(b) \o <<y>> \o Run(4) :
             x \in DateSeparators, y \in DateSeparators, a \in 1..2, b \in 1..2 }
    \cup { Run(4) \o <<"Nian">> \o Run(b) \o <<"Yue">> \o Run(c) \o <<"Ri">> :
             b \in 1..2, c \in 1..2 }

\* empty or whitespace only, a numeric token with a digit, a date literal, or
\* punctuation and whitespace only
NonTranslatable(str) ==
    LET core == Core(str)
    IN \/ core = <<>>
       \/ CharsOf(core) \subseteq NumericClass /\ "d" \in CharsOf(core)
       \/ core \in DateLiterals
       \/ CharsOf(core) \subseteq PunctuationClass

OverLong == {n \in DOMAIN orig : TextLen(Strip(orig[n])) > max_text_len}

\* C19: a paragraph whose stripped text has more than max_text_len characters
\* is left out of the run: it is no task, total_count does not count it, its
\* text is in no list sent to the provider and is no unit of the glossary
\* pass, it is counted neither in processed nor in failed, and its text is
\* the same before and after.
C19_OverLongExcluded ==
    /\ \A n \in OverLong :
          /\ nodeText[n] = orig[n]
          /\ \A i \in 1..Len(saved) : saved[i][n] = orig[n]
          /\ \A k \in 1..Len(translation_tasks) : translation_tasks[k].node # n
          /\ \A k \in 1..Len(api_tasks) : api_tasks[k].node # n
          /\ \A k \in DOMAIN resp : \A j \in 1..Len(resp[k].sent) :
                resp[k].sent[j] # Strip(orig[n])
    /\ total_count <= Len(orig) - Cardinality(OverLong)
    /\ processed + failed <= Len(orig) - Cardinality(OverLong)
    /\ pc \notin {"start", "raised"} =>
          total_count = Cardinality({n \in DOMAIN orig \ OverLong :
                                       _should_translate_text(Chars(orig[n]))})

\* a returned run on a paragraph of max_text_len + 1 characters and one of
\* exactly max_text_len with whitespace around it: the second was translated
C19_Witness ==
    /\ orig = << <<"long", 1, FALSE>>, <<"max", 2, TRUE>> >>
    /\ outcome = "returned"
    /\ total_count = 1 /\ processed = 1 /\ failed = 0
    /\ nodeText = << <<"long", 1, FALSE>>, Translate(<<"max", 2, FALSE>>) >>

\* the nodes that were extracted as tasks
TaskNodes == {translation_tasks[k].node : k \in 1..Len(translation_tasks)}

\* the document in memory and every document written to disk
Documents == {nodeText} \cup {saved[i] : i \in 1..Len(saved)}

\* C20: a run changes the text of task nodes only: the document in memory
\* and every saved document have the nodes of the source document, in the
\* same number and order, a task node is a non-empty, not over-long,
\* translatable node, and every other node keeps its text.
C20_OnlyTaskTextChanges ==
    /\ \A d \in Documents :
          /\ DOMAIN d = DOMAIN orig
          /\ \A n \in DOMAIN orig \ TaskNodes : d[n] = orig[n]
    /\ \A n \in TaskNodes :
          /\ n \in DOMAIN orig
          /\ Truthy(Strip(orig[n]))
          /\ WithinMaxLen(Strip(orig[n]))
          /\ _should_translate_text(Chars(Strip(orig[n])))

\* a returned run whose first node is no task (empty, over-long or a number)
\* and whose second node was translated and saved
C20_Witness ==
    /\ outcome = "returned"
    /\ Len(orig) = 2
    /\ orig[1] \in {EmptyText, <<"long", 1, FALSE>>, <<"num", 1, FALSE>>}
    /\ TaskNodes = {2}
    /\ nodeText = <<orig[1], Translate(orig[2])>>
    /\ saved = <<nodeText>>

\* the sizes of the batches, in order
BatchSizes == [b \in 1..Len(task_batches) |-> Len(task_batches[b])]

\* the calls in which the provider was sent texts
ProviderCalls == {k \in DOMAIN resp : resp[k].sent # <<>>}

\* the nodes of the scenario document that hold a glossary key
KeyNodes == {n \in DOMAIN orig : orig[n] \in DOMAIN GLOSSARY}

\* C21: in the scenario run (English target, no provider errors) the key
\* paragraphs are resolved from the glossary and never sent to the provider,
\* the other candidates are split into batches of batch_size with the rest
\* in the last, the provider is called once per batch, and the run returns
\* with every paragraph replaced, processed = the number of paragraphs and
\* failed = 0; for 120 paragraphs and 5 keys that is 5 glossary units,
\* batches of 50, 50 and 15, 3 provider calls and processed = 120.
C21_Scenario ==
    /\ outcome # "raised"
    /\ \A k \in DOMAIN resp :
          /\ resp[k].shape = "ok" /\ k[2] = 1
          /\ \A j \in 1..Len(resp[k].sent) : resp[k].sent[j] \notin DOMAIN GLOSSARY
    /\ pc \notin {"start", "glossary"} =>
          /\ processed >= Cardinality(KeyNodes)
          /\ Len(api_tasks) = Len(orig) - Cardinality(KeyNodes)
          /\ \A n \in KeyNodes : nodeText[n] = GLOSSARY[orig[n]]
    /\ pc = "submit" => processed = Cardinality(KeyNodes)
    /\ task_batches # <<>> =>
          /\ Len(task_batches) = (Len(api_tasks) + batch_size - 1) \div batch_size
          /\ \A b \in 1..Len(task_batches) :
                BatchSizes[b] = Min(batch_size, Len(api_tasks) - (b - 1) * batch_size)
    /\ outcome = "returned" =>
          /\ Cardinality(ProviderCalls) = Len(task_batches)
          /\ Cardinality(DOMAIN resp) = Len(task_batches)
          /\ processed = Len(orig) /\ failed = 0
          /\ \A n \in DOMAIN orig :
                nodeText[n] = IF n \in KeyNodes THEN GLOSSARY[orig[n]]
                              ELSE Translate(orig[n])
    /\ (Len(orig) = 120 /\ Cardinality(KeyNodes) = 5) =>
          /\ pc = "submit" => processed = 5 /\ Len(api_tasks) = 115
          /\ task_batches # <<>> => BatchSizes = <<50, 50, 15>>
          /\ outcome = "returned" =>
                /\ Cardinality(ProviderCalls) = 3
                /\ processed = 120 /\ failed = 0
                /\ \A n \in 1..120 : nodeText[n] # orig[n]

\* the scenario run of 120 paragraphs with 5 keys spread over the document
\* has returned after 3 provider calls
C21_Witness ==
    /\ Len(orig) = 120 /\ KeyNodes = {1, 24, 47, 70, 93}
    /\ target_language = "English"
    /\ outcome = "returned"
    /\ BatchSizes = <<50, 50, 15>>
    /\ Cardinality(ProviderCalls) = 3
    /\ processed = 120 /\ failed = 0

\* the path doc.save writes to
output_path == OutputPath(docx_path)

\* every future has finished and the loop has handled it
AllResolved ==
    /\ InFlight = {}
    /\ \A c \in DOMAIN call : call[c].pc # "queued"
    /\ folded = 1..Len(task_batches)

\* C22: the translated document is written exactly once in a run that
\* returns; it is written only after every batch has resolved and every
\* successful result has been applied; it is written at output_path, in the
\* directory of the source and under another name; the file of the source
\* always holds the source document; a run that raises before doc.save has
\* written nothing.
C22_SavedOnceAsNewArtifact ==
    /\ Len(saved) <= 1
    /\ outcome = "returned" => Len(saved) = 1
    /\ disk[docx_path] = orig
    /\ DOMAIN disk = {docx_path} \cup (IF saved = <<>> THEN {} ELSE {output_path})
    /\ saved # <<>> =>
          /\ output_path # docx_path /\ output_path.parent = docx_path.parent
          /\ disk[output_path] = saved[1]
          /\ pc \in {"done", "raised"}
          /\ AllResolved
          /\ \A k \in 1..Len(api_tasks) :
                Applicable(translation_results, api_tasks[k]) =>
                  saved[1][api_tasks[k].node] = translation_results[api_tasks[k].idx].text
          /\ outcome = "raised" =>
                cbLog[Len(cbLog)][3] \in {"done", "done_with_failures"}
    /\ (outcome = "raised" /\ (cbLog = <<>> \/ cbLog[Len(cbLog)][3]
                                  \notin {"done", "done_with_failures"})) =>
          saved = <<>>

\* the document a.docx was translated by the provider and saved as
\* translated_a.docx; a.docx holds the source
C22_Witness ==
    /\ docx_path = DefaultPath
    /\ outcome = "returned"
    /\ orig = << <<"src", 1, FALSE>> >>
    /\ disk = ([parent |-> "dir", name |-> <<"translated_", "a", ".docx">>]
                :> << <<"tr", 1, FALSE>> >>) @@ (DefaultPath :> orig)

\* the provider calls made in the i-th direct call of the process
AttemptsOfCall(i) == {k \in DOMAIN resp : k[1] = 0 /\ k[2] = i}

\* C23: a single-text call (translate_text, call_deepl_api) raises a
\* connection failure only after the provider was tried more than once.
C23_SingleCallRetried ==
    args.fn \in {"translate_text", "call_deepl_api"} =>
        \A i \in 1..Len(replies) :
            replies[i].error.kind = "Connection" =>
                Cardinality(AttemptsOfCall(i)) > 1

\* this step is a provider call of caller c: translator.translate_text
\* answers or raises
CallsProvider(c) ==
    /\ c \in DOMAIN call /\ c \in DOMAIN call'
    /\ call[c].pc = "net" /\ call'[c].pc = "finished"

\* the records of the calls made for batch b
RecordsOf(b) == {k \in DOMAIN resp : k[1] = b}

\* C24: every batch is submitted to the pool once; the provider is called
\* for it by its pool worker when no call was made for it yet, and by the
\* loop thread, retrying it, when exactly the pool call was made; once the
\* loop has handled a batch (also when its retry failed) no call is made
\* for it any more.  So the provider is called at most twice per batch.
C24_AtMostTwoCallsPerBatch ==
    [][ /\ \A c \in DOMAIN call :
              CallsProvider(c) =>
                  LET b == call[c].batch
                  IN /\ b \notin folded
                     /\ IF c # 0
                        THEN c = b /\ RecordsOf(b) = {}
                        ELSE /\ b = cur /\ pc = "retry"
                             /\ RecordsOf(b) = {<<b, 1>>}
                     /\ RecordsOf(b)' = RecordsOf(b) \cup {<<b, Attempt(c)>>}
        /\ \A b \in DOMAIN call' \ {0} :
              call'[b].pc = "queued" =>
                  \/ pc = "submit"
                  \/ b \in DOMAIN call /\ call[b].pc = "queued"
        /\ \A b \in folded :
              /\ b \in folded'
              /\ cur' # b
              /\ RecordsOf(b)' = RecordsOf(b)
              /\ call'[b] = call[b]
      ]_vars

\* a returned run of two batches in which the pool call and the retry of the
\* first batch both failed and the second batch was called once
C24_Witness ==
    /\ outcome = "returned"
    /\ Len(task_batches) = 2
    /\ RecordsOf(1) = {<<1, 1>>, <<1, 2>>}
    /\ resp[<<1, 1>>].error # NoError /\ resp[<<1, 2>>].error # NoError
    /\ RecordsOf(2) = {<<2, 1>>}
    /\ failed = batch_size

\* the invocations the callback received in the as_completed loop
LoopReports == {i \in 1..Len(cbLog) : cbLog[i][3] \in {"progress", "batch_failed"}}

\* the invocations this step adds to the log
NewReports == {i \in 1..Len(cbLog') : i > Len(cbLog)}

\* C25: in the as_completed loop the callback is invoked once per completed
\* batch, after the batch's results and its retry's are in the result map,
\* with current = glossary hits + units that hold a successful result and
\* total = total_count, 0 <= current <= total; completed_batches grows by
\* one per batch and ends as the number of batches.
C25_OneReportPerBatch ==
    /\ [](/\ completed_batches = Cardinality(folded)
          /\ cbMode # "none" => Cardinality(LoopReports) = Cardinality(folded)
          /\ pc \in {"apply", "save", "done"} /\ task_batches # <<>> =>
                completed_batches = Len(task_batches)
          /\ \A i \in LoopReports :
                cbLog[i][2] = total_count /\ 0 <= cbLog[i][1]
                /\ cbLog[i][1] <= total_count)
    /\ [][\A i \in NewReports :
              cbLog'[i][3] \in {"progress", "batch_failed"} =>
                  /\ cbLog'[i][1] = CurrentProcessed(translation_results')
                  /\ completed_batches' = completed_batches + 1
                  /\ Cardinality(NewReports) = 1]_vars

\* the run is over: it has returned the output path or raised
Terminated == outcome \in {"returned", "raised"}

\* C26: when every provider call returns or raises and the callback returns,
\* every run ends: every batch is resolved, the apply step runs, and the run
\* returns after the terminal report or raises.
C26_Terminates ==
    /\ <>Terminated
    /\ (pc = "collect") ~> (folded = 1..Len(task_batches) /\ InFlight = {})
    /\ (pc = "collect") ~> (pc = "apply")
    /\ (pc = "apply") ~> (pc = "save")
    /\ [](outcome = "returned" =>
            /\ pc = "done"
            /\ cbMode = "returns" =>
                  cbLog[Len(cbLog)][3] \in {"done", "done_with_failures"})

\* a run has returned, with the terminal report, after the pool call and the
\* retry of its first batch both failed
C26_Witness ==
    /\ Terminated /\ pc = "done"
    /\ cbMode = "returns"
    /\ cbLog[Len(cbLog)] = <<total_count, total_count, "done_with_failures">>
    /\ Called(1, 2) /\ resp[<<1, 2>>].error # NoError
    /\ folded = {1, 2}

\* the loop thread is in time.sleep(5) or in the retry call
Retrying == pc \in {"sleep", "retry"}

\* the pool calls in flight
WorkersBusy == {c \in DOMAIN call \ {0} : call[c].pc \in {"construct", "return", "net"}}

\* C27: while the loop thread is in the backoff or in the retry call, every
\* pool call in flight can take its next step (the provider call can return
\* or raise) and the oldest queued batch can be started when a worker is
\* free; no completed batch can be folded before the retry has ended.
C27_WorkersNotBlocked ==
    Retrying =>
        \A b \in DOMAIN call \ {0} :
            /\ call[b].pc = "net" => ENABLED ProviderCall(b)
            /\ call[b].pc = "construct" => ENABLED Construct(b)
            /\ call[b].pc = "return" => ENABLED Return(b)
            /\ ( /\ call[b].pc = "queued"
                 /\ \A b2 \in 1..(b - 1) : call[b2].pc # "queued"
                 /\ Cardinality(WorkersBusy) < max_workers ) => ENABLED WorkerTake(b)
            /\ ~ENABLED Fold(b)

\* the loop thread is in the retry call of the first batch while the second
\* batch, started during the backoff, has finished and waits to be folded
C27_Witness ==
    /\ pc = "retry" /\ cur = 1 /\ call[0].pc = "net"
    /\ call[2].pc = "finished" /\ 2 \notin folded
    /\ completed_batches = 0

\* the result of unit i is recorded and carries no error
Succeeded(r, i) == i \in DOMAIN r /\ r[i].error = NoError

\* C28: with a callback that does not raise, the current values of the
\* reports of the as_completed loop never decrease, because a recorded result
\* stays recorded and a success stays a success (a result changes only from
\* failure to success, by a retry); the report of the apply step that
\* follows carries the number of glossary hits as current.
C28_LoopReportsNonDecreasing ==
    /\ [](CallbackReturns =>
            /\ \A i \in LoopReports : \A j \in LoopReports :
                  i < j => cbLog[i][1] <= cbLog[j][1]
            /\ \A i \in 1..Len(cbLog) :
                  cbLog[i][3] = "applying" =>
                      /\ cbLog[i][1] = Cardinality(GlossaryUnits)
                      /\ \A j \in LoopReports : j < i)
    /\ [][CallbackReturns =>
            \A i \in DOMAIN translation_results :
                /\ i \in DOMAIN translation_results'
                /\ Succeeded(translation_results, i) =>
                      translation_results'[i] = translation_results[i]]_vars

\* a run whose loop reported 1 and then 51 units, the first batch having
\* succeeded on its retry, and whose apply step then reported 0
C28_Witness ==
    /\ cbMode = "returns"
    /\ Len(task_batches) = 2
    /\ Called(1, 2)
    /\ \E i \in LoopReports : \E j \in LoopReports :
          i < j /\ cbLog[i][1] = 1 /\ cbLog[j][1] = batch_size + 1
    /\ cbLog[Len(cbLog)] = <<0, total_count, "applying">>

\* the call whose results the loop stored for batch b: the retry when it was
\* made and raised nothing, else the pool call
StoredCall(b) ==
    IF Called(b, 2) /\ resp[<<b, 2>>].error = NoError
    THEN resp[<<b, 2>>] ELSE resp[<<b, 1>>]

\* the tasks of batch b the provider gave no translation for in that call
Unanswered(b) ==
    IF StoredCall(b).shape = "short"
    THEN {task_batches[b][Len(task_batches[b])]} ELSE {}

\* no result carries the 'result count mismatch' failure
NoMismatch ==
    \A i \in DOMAIN translation_results : translation_results[i].error # MismatchError

\* C29 as stated: when the provider returns fewer translations than texts,
\* the batch is not failed, the mismatch marking is never reached, and the
\* units without a translation are counted as processed and end the run with
\* their original text.
C29_ShortAnswerKeepsOriginal ==
    /\ NoMismatch
    /\ outcome = "returned" =>
          \A b \in 1..Len(task_batches) : \A t \in Unanswered(b) :
              /\ t.idx \in AppliedUnits
              /\ nodeText[t.node] = orig[t.node]

\* C29 as amended: the units without a translation are counted as processed
\* and end the run with their source text as it was extracted, that is with
\* the whitespace around it stripped; the other units of the batch hold
\* their translations.
C29_ShortAnswerKeepsStrippedSource ==
    /\ NoMismatch
    /\ outcome = "returned" =>
          \A b \in 1..Len(task_batches) : \A t \in Unanswered(b) :
              /\ t.idx \in AppliedUnits
              /\ translation_results[t.idx] = Success(t.text)
              /\ nodeText[t.node] = Strip(orig[t.node])
              /\ failed = 0
              /\ processed = total_count
              /\ \A k \in 1..(Len(task_batches[b]) - 1) :
                    nodeText[task_batches[b][k].node]
                        = Translate(task_batches[b][k].text)

\* the provider answered the batch of two paragraphs with one translation:
\* the first paragraph is translated, the second, which had whitespace around
\* its text, holds the stripped text, and both are counted as processed
C29_Witness ==
    /\ outcome = "returned"
    /\ orig = << <<"src", 1, FALSE>>, <<"src", 2, TRUE>> >>
    /\ resp[<<1, 1>>].shape = "short"
    /\ nodeText = << <<"tr", 1, FALSE>>, <<"src", 2, FALSE>> >>
    /\ processed = 2 /\ failed = 0

\* the attempts call_deepseek_api has made
Attempts == Len(deepseek.log)

DeepseekDone == deepseek.pc \in {"returned", "raised"}

====
